---- MODULE Spec2Model ----
(***************************************************************************)
(* Entity-resolution and flight-assembly pipeline of the flight-logging    *)
(* backend: the airline, airport and aircraft find-or-create resolvers,    *)
(* the photo enrichment that runs beside the aircraft resolver, and        *)
(* createFlight, over a document store with unique indexes.                *)
(*                                                                         *)
(* Text is a sequence of one-character strings, so that length, case,      *)
(* substring and pattern tests are computed rather than assumed.  A null,  *)
(* undefined or empty text (all falsy in the code) is the empty sequence;  *)
(* a null record reference is 0 (record ids start at 1 and are the         *)
(* positions in the store's insertion order: nothing is ever deleted).     *)
(* Every await of the code ends one action: the store operation it waits   *)
(* for is atomic, the code between two awaits runs without interleaving.   *)
(***************************************************************************)
EXTENDS Integers, Sequences, FiniteSets, TLC

VARIABLES airlines,  \* the airlines collection, in insertion order
          airports,  \* the airports collection
          aircraft,  \* the aircraft collection
          flights,   \* the flights collection
          al,        \* per caller: its findOrCreateAirline call
          ap,        \* per caller and side: its findOrCreateAirport call
          ac,        \* per caller: its findOrCreateAircraft call
          ph,        \* per slot: a running fetchAndSaveAircraftPhotos
          cf,        \* per caller: its createFlight request
          now,       \* the clock, in half hours
          tz,        \* the server's local-time offset from UTC, in half hours
          calls,     \* number of top-level calls started so far
          last,      \* the top-level call that returned most recently
          top,       \* per caller: its top-level call in progress
          flickr     \* the image-search service: its API key and its cache

vars == <<airlines, airports, aircraft, flights, al, ap, ac, ph, cf, now, tz, calls, last, top,
          flickr>>

(***************************************************************************)
(* Text helpers (JavaScript String methods and the patterns of the code).  *)
(***************************************************************************)
Null == <<>>

NoId == 0

UpperLetters ==
  {"A","B","C","D","E","F","G","H","I","J","K","L","M",
   "N","O","P","Q","R","S","T","U","V","W","X","Y","Z"}

LowerSeq ==
  <<"a","b","c","d","e","f","g","h","i","j","k","l","m",
    "n","o","p","q","r","s","t","u","v","w","x","y","z">>

UpperSeq ==
  <<"A","B","C","D","E","F","G","H","I","J","K","L","M",
    "N","O","P","Q","R","S","T","U","V","W","X","Y","Z">>

Digits == {"0","1","2","3","4","5","6","7","8","9"}

ToUpperChar(c) ==
  IF \E i \in 1..Len(LowerSeq) : LowerSeq[i] = c
  THEN UpperSeq[CHOOSE i \in 1..Len(LowerSeq) : LowerSeq[i] = c]
  ELSE c

ToLowerChar(c) ==
  IF \E i \in 1..Len(UpperSeq) : UpperSeq[i] = c
  THEN LowerSeq[CHOOSE i \in 1..Len(UpperSeq) : UpperSeq[i] = c]
  ELSE c

ToUpperCase(s) == [i \in 1..Len(s) |-> ToUpperChar(s[i])]

ToLowerCase(s) == [i \in 1..Len(s) |-> ToLowerChar(s[i])]

RECURSIVE TrimLeft(_)
TrimLeft(s) == IF s # <<>> /\ Head(s) = " " THEN TrimLeft(Tail(s)) ELSE s

RECURSIVE TrimRight(_)
TrimRight(s) ==
  IF s # <<>> /\ s[Len(s)] = " " THEN TrimRight(SubSeq(s, 1, Len(s) - 1)) ELSE s

Trim(s) == TrimRight(TrimLeft(s))

\* s.substring(from) with a 0-based index
Substring(s, from) == SubSeq(s, from + 1, Len(s))

\* a.includes(b)
Includes(a, b) ==
  \E i \in 0..(Len(a) - Len(b)) : SubSeq(a, i + 1, i + Len(b)) = b

StartsWith(a, b) == Len(a) >= Len(b) /\ SubSeq(a, 1, Len(b)) = b

\* /^[A-Z]{n}$/
IsUpperLetters(s, n) == Len(s) = n /\ \A i \in 1..Len(s) : s[i] \in UpperLetters

Truthy(s) == s # Null

\* a || b
OrElse(a, b) == IF Truthy(a) THEN a ELSE b

AirlineCodeMap ==
  << [iata |-> <<"E", "K">>, name |-> <<"E", "m", "i", "r", "a", "t", "e", "s">>, icaoCode |-> <<"U", "A", "E">>],
     [iata |-> <<"A", "A">>, name |-> <<"A", "m", "e", "r", "i", "c", "a", "n", " ", "A", "i", "r", "l", "i", "n", "e", "s">>, icaoCode |-> <<"A", "A", "L">>],
     [iata |-> <<"D", "L">>, name |-> <<"D", "e", "l", "t", "a", " ", "A", "i", "r", " ", "L", "i", "n", "e", "s">>, icaoCode |-> <<"D", "A", "L">>],
     [iata |-> <<"U", "A">>, name |-> <<"U", "n", "i", "t", "e", "d", " ", "A", "i", "r", "l", "i", "n", "e", "s">>, icaoCode |-> <<"U", "A", "L">>],
     [iata |-> <<"B", "A">>, name |-> <<"B", "r", "i", "t", "i", "s", "h", " ", "A", "i", "r", "w", "a", "y", "s">>, icaoCode |-> <<"B", "A", "W">>],
     [iata |-> <<"L", "H">>, name |-> <<"L", "u", "f", "t", "h", "a", "n", "s", "a">>, icaoCode |-> <<"D", "L", "H">>],
     [iata |-> <<"A", "F">>, name |-> <<"A", "i", "r", " ", "F", "r", "a", "n", "c", "e">>, icaoCode |-> <<"A", "F", "R">>],
     [iata |-> <<"K", "L">>, name |-> <<"K", "L", "M", " ", "R", "o", "y", "a", "l", " ", "D", "u", "t", "c", "h", " ", "A", "i", "r", "l", "i", "n", "e", "s">>, icaoCode |-> <<"K", "L", "M">>],
     [iata |-> <<"S", "Q">>, name |-> <<"S", "i", "n", "g", "a", "p", "o", "r", "e", " ", "A", "i", "r", "l", "i", "n", "e", "s">>, icaoCode |-> <<"S", "I", "A">>],
     [iata |-> <<"Q", "F">>, name |-> <<"Q", "a", "n", "t", "a", "s">>, icaoCode |-> <<"Q", "F", "A">>],
     [iata |-> <<"C", "X">>, name |-> <<"C", "a", "t", "h", "a", "y", " ", "P", "a", "c", "i", "f", "i", "c">>, icaoCode |-> <<"C", "P", "A">>],
     [iata |-> <<"J", "L">>, name |-> <<"J", "a", "p", "a", "n", " ", "A", "i", "r", "l", "i", "n", "e", "s">>, icaoCode |-> <<"J", "A", "L">>],
     [iata |-> <<"N", "H">>, name |-> <<"A", "l", "l", " ", "N", "i", "p", "p", "o", "n", " ", "A", "i", "r", "w", "a", "y", "s">>, icaoCode |-> <<"A", "N", "A">>],
     [iata |-> <<"T", "K">>, name |-> <<"T", "u", "r", "k", "i", "s", "h", " ", "A", "i", "r", "l", "i", "n", "e", "s">>, icaoCode |-> <<"T", "H", "Y">>],
     [iata |-> <<"E", "Y">>, name |-> <<"E", "t", "i", "h", "a", "d", " ", "A", "i", "r", "w", "a", "y", "s">>, icaoCode |-> <<"E", "T", "D">>],
     [iata |-> <<"Q", "R">>, name |-> <<"Q", "a", "t", "a", "r", " ", "A", "i", "r", "w", "a", "y", "s">>, icaoCode |-> <<"Q", "T", "R">>],
     [iata |-> <<"S", "V">>, name |-> <<"S", "a", "u", "d", "i", "a">>, icaoCode |-> <<"S", "V", "A">>],
     [iata |-> <<"L", "X">>, name |-> <<"S", "w", "i", "s", "s", " ", "I", "n", "t", "e", "r", "n", "a", "t", "i", "o", "n", "a", "l", " ", "A", "i", "r", " ", "L", "i", "n", "e", "s">>, icaoCode |-> <<"S", "W", "R">>],
     [iata |-> <<"O", "S">>, name |-> <<"A", "u", "s", "t", "r", "i", "a", "n", " ", "A", "i", "r", "l", "i", "n", "e", "s">>, icaoCode |-> <<"A", "U", "A">>],
     [iata |-> <<"S", "K">>, name |-> <<"S", "c", "a", "n", "d", "i", "n", "a", "v", "i", "a", "n", " ", "A", "i", "r", "l", "i", "n", "e", "s">>, icaoCode |-> <<"S", "A", "S">>],
     [iata |-> <<"A", "Y">>, name |-> <<"F", "i", "n", "n", "a", "i", "r">>, icaoCode |-> <<"F", "I", "N">>],
     [iata |-> <<"I", "B">>, name |-> <<"I", "b", "e", "r", "i", "a">>, icaoCode |-> <<"I", "B", "E">>],
     [iata |-> <<"T", "P">>, name |-> <<"T", "A", "P", " ", "A", "i", "r", " ", "P", "o", "r", "t", "u", "g", "a", "l">>, icaoCode |-> <<"T", "A", "P">>],
     [iata |-> <<"A", "I">>, name |-> <<"A", "i", "r", " ", "I", "n", "d", "i", "a">>, icaoCode |-> <<"A", "I", "C">>],
     [iata |-> <<"A", "C">>, name |-> <<"A", "i", "r", " ", "C", "a", "n", "a", "d", "a">>, icaoCode |-> <<"A", "C", "A">>],
     [iata |-> <<"W", "F">>, name |-> <<"W", "e", "s", "t", "J", "e", "t">>, icaoCode |-> <<"W", "J", "A">>],
     [iata |-> <<"V", "S">>, name |-> <<"V", "i", "r", "g", "i", "n", " ", "A", "t", "l", "a", "n", "t", "i", "c">>, icaoCode |-> <<"V", "I", "R">>],
     [iata |-> <<"V", "Y">>, name |-> <<"V", "u", "e", "l", "i", "n", "g">>, icaoCode |-> <<"V", "L", "G">>],
     [iata |-> <<"F", "R">>, name |-> <<"R", "y", "a", "n", "a", "i", "r">>, icaoCode |-> <<"R", "Y", "R">>],
     [iata |-> <<"U", "2">>, name |-> <<"e", "a", "s", "y", "J", "e", "t">>, icaoCode |-> <<"E", "Z", "Y">>],
     [iata |-> <<"W", "N">>, name |-> <<"S", "o", "u", "t", "h", "w", "e", "s", "t", " ", "A", "i", "r", "l", "i", "n", "e", "s">>, icaoCode |-> <<"S", "W", "A">>],
     [iata |-> <<"B", "6">>, name |-> <<"J", "e", "t", "B", "l", "u", "e", " ", "A", "i", "r", "w", "a", "y", "s">>, icaoCode |-> <<"J", "B", "U">>],
     [iata |-> <<"A", "S">>, name |-> <<"A", "l", "a", "s", "k", "a", " ", "A", "i", "r", "l", "i", "n", "e", "s">>, icaoCode |-> <<"A", "S", "A">>],
     [iata |-> <<"F", "9">>, name |-> <<"F", "r", "o", "n", "t", "i", "e", "r", " ", "A", "i", "r", "l", "i", "n", "e", "s">>, icaoCode |-> <<"F", "F", "T">>],
     [iata |-> <<"N", "K">>, name |-> <<"S", "p", "i", "r", "i", "t", " ", "A", "i", "r", "l", "i", "n", "e", "s">>, icaoCode |-> <<"N", "K", "S">>],
     [iata |-> <<"O", "O">>, name |-> <<"S", "k", "y", "W", "e", "s", "t", " ", "A", "i", "r", "l", "i", "n", "e", "s">>, icaoCode |-> <<"S", "K", "W">>],
     [iata |-> <<"Y", "V">>, name |-> <<"M", "e", "s", "a", " ", "A", "i", "r", "l", "i", "n", "e", "s">>, icaoCode |-> <<"A", "S", "H">>],
     [iata |-> <<"O", "H">>, name |-> <<"P", "S", "A", " ", "A", "i", "r", "l", "i", "n", "e", "s">>, icaoCode |-> <<"J", "I", "A">>],
     [iata |-> <<"M", "Q">>, name |-> <<"E", "n", "v", "o", "y", " ", "A", "i", "r">>, icaoCode |-> <<"E", "N", "Y">>],
     [iata |-> <<"Y", "X">>, name |-> <<"R", "e", "p", "u", "b", "l", "i", "c", " ", "A", "i", "r", "w", "a", "y", "s">>, icaoCode |-> <<"R", "P", "A">>],
     [iata |-> <<"G", "7">>, name |-> <<"A", "l", "l", "e", "g", "i", "a", "n", "t", " ", "A", "i", "r">>, icaoCode |-> <<"A", "A", "Y">>],
     [iata |-> <<"S", "Y">>, name |-> <<"S", "u", "n", " ", "C", "o", "u", "n", "t", "r", "y", " ", "A", "i", "r", "l", "i", "n", "e", "s">>, icaoCode |-> <<"S", "C", "X">>] >>

IcaoToIataMap ==
  { <<<<"K", "J", "F", "K">>, <<"J", "F", "K">>>>,
    <<<<"K", "L", "A", "X">>, <<"L", "A", "X">>>>,
    <<<<"K", "O", "R", "D">>, <<"O", "R", "D">>>>,
    <<<<"K", "A", "T", "L">>, <<"A", "T", "L">>>>,
    <<<<"K", "D", "F", "W">>, <<"D", "F", "W">>>>,
    <<<<"K", "D", "E", "N">>, <<"D", "E", "N">>>>,
    <<<<"K", "S", "F", "O">>, <<"S", "F", "O">>>>,
    <<<<"K", "L", "A", "S">>, <<"L", "A", "S">>>>,
    <<<<"K", "M", "I", "A">>, <<"M", "I", "A">>>>,
    <<<<"K", "B", "O", "S">>, <<"B", "O", "S">>>>,
    <<<<"K", "S", "E", "A">>, <<"S", "E", "A">>>>,
    <<<<"K", "P", "H", "X">>, <<"P", "H", "X">>>>,
    <<<<"K", "I", "A", "H">>, <<"I", "A", "H">>>>,
    <<<<"K", "D", "T", "W">>, <<"D", "T", "W">>>>,
    <<<<"K", "M", "S", "P">>, <<"M", "S", "P">>>>,
    <<<<"K", "P", "H", "L">>, <<"P", "H", "L">>>>,
    <<<<"K", "C", "L", "T">>, <<"C", "L", "T">>>>,
    <<<<"E", "G", "L", "L">>, <<"L", "H", "R">>>>,
    <<<<"E", "G", "K", "K">>, <<"L", "G", "W">>>>,
    <<<<"L", "F", "P", "G">>, <<"C", "D", "G">>>>,
    <<<<"E", "D", "D", "F">>, <<"F", "R", "A">>>>,
    <<<<"E", "H", "A", "M">>, <<"A", "M", "S">>>>,
    <<<<"L", "E", "M", "D">>, <<"M", "A", "D">>>>,
    <<<<"L", "I", "R", "F">>, <<"F", "C", "O">>>>,
    <<<<"L", "O", "W", "W">>, <<"V", "I", "E">>>>,
    <<<<"L", "S", "Z", "H">>, <<"Z", "U", "R">>>>,
    <<<<"E", "S", "S", "A">>, <<"A", "R", "N">>>>,
    <<<<"E", "K", "C", "H">>, <<"C", "P", "H">>>>,
    <<<<"E", "N", "G", "M">>, <<"O", "S", "L">>>>,
    <<<<"E", "F", "H", "K">>, <<"H", "E", "L">>>>,
    <<<<"O", "M", "D", "B">>, <<"D", "X", "B">>>>,
    <<<<"O", "E", "R", "K">>, <<"R", "U", "H">>>>,
    <<<<"O", "T", "H", "H">>, <<"D", "O", "H">>>>,
    <<<<"H", "E", "C", "A">>, <<"C", "A", "I">>>>,
    <<<<"L", "T", "B", "A">>, <<"I", "S", "T">>>>,
    <<<<"R", "J", "T", "T">>, <<"N", "R", "T">>>>,
    <<<<"R", "J", "A", "A">>, <<"H", "N", "D">>>>,
    <<<<"R", "K", "S", "I">>, <<"I", "C", "N">>>>,
    <<<<"V", "H", "H", "H">>, <<"H", "K", "G">>>>,
    <<<<"W", "S", "S", "S">>, <<"S", "I", "N">>>>,
    <<<<"W", "M", "K", "K">>, <<"K", "U", "L">>>>,
    <<<<"V", "T", "B", "S">>, <<"B", "K", "K">>>>,
    <<<<"Y", "S", "S", "Y">>, <<"S", "Y", "D">>>>,
    <<<<"Y", "M", "M", "L">>, <<"M", "E", "L">>>>,
    <<<<"N", "Z", "A", "A">>, <<"A", "K", "L">>>>,
    <<<<"V", "I", "D", "P">>, <<"D", "E", "L">>>>,
    <<<<"V", "A", "B", "B">>, <<"B", "O", "M">>>>,
    <<<<"V", "O", "B", "L">>, <<"B", "L", "R">>>>,
    <<<<"V", "O", "M", "M">>, <<"M", "A", "A">>>>,
    <<<<"V", "E", "C", "C">>, <<"C", "C", "U">>>>,
    <<<<"V", "O", "H", "S">>, <<"H", "Y", "D">>>>,
    <<<<"V", "A", "A", "H">>, <<"A", "M", "D">>>>,
    <<<<"V", "O", "C", "I">>, <<"C", "O", "K">>>>,
    <<<<"V", "O", "T", "R">>, <<"T", "R", "V">>>>,
    <<<<"V", "A", "G", "O">>, <<"G", "O", "I">>>>,
    <<<<"V", "O", "G", "O">>, <<"G", "O", "I">>>>,
    <<<<"C", "Y", "Y", "Z">>, <<"Y", "Y", "Z">>>>,
    <<<<"C", "Y", "V", "R">>, <<"Y", "V", "R">>>>,
    <<<<"C", "Y", "U", "L">>, <<"Y", "U", "L">>>>,
    <<<<"C", "Y", "Y", "C">>, <<"Y", "Y", "C">>>>,
    <<<<"C", "Y", "O", "W">>, <<"Y", "O", "W">>>>,
    <<<<"C", "Y", "W", "G">>, <<"Y", "W", "G">>>>,
    <<<<"S", "B", "G", "R">>, <<"G", "R", "U">>>>,
    <<<<"S", "C", "E", "L">>, <<"S", "C", "L">>>>,
    <<<<"S", "A", "E", "Z">>, <<"E", "Z", "E">>>>,
    <<<<"S", "K", "B", "O">>, <<"B", "O", "G">>>>,
    <<<<"S", "P", "J", "C">>, <<"L", "I", "M">>>> }

(***************************************************************************)
(* Callers and the bookkeeping of top-level calls.                         *)
(***************************************************************************)
Procs == {"p1", "p2"}

IdleTop == [op |-> "none", solo |-> TRUE, prev |-> [op |-> "none"]]

\* Caller p starts a top-level call of kind op.  solo records that no other
\* top-level call ran at any time during the call; prev is the call that
\* returned last before this one started.
BeginTop(p, op) ==
  [q \in Procs |->
     IF q = p
     THEN [op |-> op, solo |-> \A r \in Procs \ {p} : top[r].op = "none", prev |-> last]
     ELSE IF top[q].op = "none" THEN top[q] ELSE [top[q] EXCEPT !.solo = FALSE]]

EndTop(p) == [top EXCEPT ![p] = IdleTop]

(***************************************************************************)
(* Airline: schema (validation on create) and unique indexes.              *)
(***************************************************************************)
\* a variant of the schema below without the two match validators
AirlineValidNameOnly(d) == Truthy(d.name) /\ Truthy(d.iataCode)

\* airlineSchema: name required; iataCode required, /^[A-Z]{2}$/; icaoCode,
\* when set, /^[A-Z]{3}$/ (the match validator skips null and empty values)
AirlineValid(d) ==
  /\ Truthy(d.name)
  /\ IsUpperLetters(d.iataCode, 2)
  /\ (Truthy(d.icaoCode) => IsUpperLetters(d.icaoCode, 3))

\* airlines indexes: iataCode unique; icaoCode unique and sparse, taken as
\* unique among the records that carry an ICAO code
AirlineDupKey(d) ==
  \/ \E i \in 1..Len(airlines) : airlines[i].iataCode = d.iataCode
  \/ /\ Truthy(d.icaoCode)
     /\ \E i \in 1..Len(airlines) : airlines[i].icaoCode = d.icaoCode

AirlineByIata(c) == {i \in 1..Len(airlines) : airlines[i].iataCode = c}

AirlineByIcao(c) == {i \in 1..Len(airlines) : airlines[i].icaoCode = c}

\* the static table, read as the code reads it
MapByIata(c) == {i \in 1..Len(AirlineCodeMap) : AirlineCodeMap[i].iata = c}

MapByIcao(c) == {i \in 1..Len(AirlineCodeMap) : AirlineCodeMap[i].icaoCode = c}

Min(S) == CHOOSE x \in S : \A y \in S : x <= y

AirlineWord == <<"A", "i", "r", "l", "i", "n", "e", " ">>

\* lines 166-217 of findOrCreateAirline: the record to create for the
\* normalized code c
AirlineDataFor(c) ==
  IF MapByIata(c) # {}
  THEN LET e == AirlineCodeMap[Min(MapByIata(c))]
       IN [name |-> e.name, iataCode |-> c, icaoCode |-> e.icaoCode]
  ELSE IF MapByIcao(c) # {}
  THEN LET e == AirlineCodeMap[Min(MapByIcao(c))]
       IN [name |-> e.name, iataCode |-> e.iata, icaoCode |-> c]
  ELSE LET iata == IF Len(c) = 2 \/ Len(c) = 3 THEN c ELSE SubSeq(c, 1, 2)
           icao == IF Len(c) = 2 \/ Len(c) = 3 THEN Null ELSE c
       IN [name |-> AirlineWord \o iata, iataCode |-> iata, icaoCode |-> icao]

IdleAl == [pc |-> "idle"]

\* findOrCreateAirline(code) up to its first await.  rows0, fresh and created
\* are bookkeeping: the size of the collection when the call started, whether
\* no airline carried the code then, and whether this call inserted a record.
StartAirline(code) ==
  IF ~Truthy(code)
  THEN [pc |-> "done", code |-> code, res |-> NoId, err |-> "Airline code is required",
        rows0 |-> Len(airlines), fresh |-> FALSE, created |-> FALSE]
  ELSE [pc |-> "findIata", code |-> ToUpperCase(code), res |-> NoId, err |-> "",
        rows0 |-> Len(airlines), created |-> FALSE,
        fresh |-> AirlineByIata(ToUpperCase(code)) \cup AirlineByIcao(ToUpperCase(code)) = {}]

AirlineDone(t, id, err) == [t EXCEPT !.pc = "done", !.res = id, !.err = err]

\* Airline.findOne({ iataCode: normalizedCode })
AirlineFindIata(p) ==
  /\ al[p].pc = "findIata"
  /\ LET hit == AirlineByIata(al[p].code)
     IN al' = [al EXCEPT ![p] =
                 IF hit # {} THEN AirlineDone(@, Min(hit), "")
                 ELSE [@ EXCEPT !.pc = "findIcao"]]
  /\ UNCHANGED <<flickr, airlines, airports, aircraft, flights, ap, ac, ph, cf, now, tz,
                 calls, last, top>>

\* Airline.findOne({ icaoCode: normalizedCode }), then the table lookup
AirlineFindIcao(p) ==
  /\ al[p].pc = "findIcao"
  /\ LET hit == AirlineByIcao(al[p].code)
     IN al' = [al EXCEPT ![p] =
                 IF hit # {} THEN AirlineDone(@, Min(hit), "")
                 ELSE [@ EXCEPT !.pc = "create"]]
  /\ UNCHANGED <<flickr, airlines, airports, aircraft, flights, ap, ac, ph, cf, now, tz,
                 calls, last, top>>

\* Airline.create(airlineData): validation, then the insert under the indexes
AirlineCreate(p) ==
  /\ al[p].pc = "create"
  /\ LET d == AirlineDataFor(al[p].code)
     IN IF ~AirlineValid(d)
        THEN /\ al' = [al EXCEPT ![p] = AirlineDone(@, NoId, "ValidationError")]
             /\ UNCHANGED airlines
        ELSE IF AirlineDupKey(d)
        THEN /\ al' = [al EXCEPT ![p].pc = "refetch"]
             /\ UNCHANGED airlines
        ELSE /\ airlines' = Append(airlines, d)
             /\ al' = [al EXCEPT ![p] =
                         [AirlineDone(@, Len(airlines) + 1, "") EXCEPT !.created = TRUE]]
  /\ UNCHANGED <<flickr, airports, aircraft, flights, ap, ac, ph, cf, now, tz, calls, last, top>>

\* the catch of error 11000:
\* Airline.findOne({ $or: [{ iataCode }, { icaoCode }] }); a null icaoCode in
\* the filter matches every record without an ICAO code.  Which of several
\* matching records findOne yields depends on the query plan.
AirlineRefetchMatches(d) ==
  {i \in 1..Len(airlines) :
     airlines[i].iataCode = d.iataCode \/ airlines[i].icaoCode = d.icaoCode}

AirlineRefetch(p) ==
  /\ al[p].pc = "refetch"
  /\ LET m == AirlineRefetchMatches(AirlineDataFor(al[p].code))
     IN IF m = {}
        THEN al' = [al EXCEPT ![p] = AirlineDone(@, NoId, "E11000")]
        ELSE \E i \in m : al' = [al EXCEPT ![p] = AirlineDone(@, i, "")]
  /\ UNCHANGED <<flickr, airlines, airports, aircraft, flights, ap, ac, ph, cf, now, tz,
                 calls, last, top>>

\* the codes callers pass to the airline resolver
AirlineCodes ==
  { <<"E","K">>, <<"U","A","E">>, <<"e","k">>, <<"Z","Z">>, <<"Y","Y">>,
    <<"Z","Z","Z">>, <<"U","2">> }

\* a caller invokes findOrCreateAirline(c), c drawn from codes, while the
\* behaviour has started fewer than max calls
CallAirline(p, codes, max) ==
  /\ top[p].op = "none"
  /\ calls < max
  /\ \E c \in codes : al' = [al EXCEPT ![p] = StartAirline(c)]
  /\ top' = BeginTop(p, "airline")
  /\ calls' = calls + 1
  /\ UNCHANGED <<flickr, airlines, airports, aircraft, flights, ap, ac, ph, cf, now, tz, last>>

\* the call returns (or throws) to its caller
ReturnAirline(p) ==
  /\ top[p].op = "airline"
  /\ al[p].pc = "done"
  /\ last' = [op |-> "airline", key |-> al[p].code, res |-> al[p].res,
              err |-> al[p].err, solo |-> top[p].solo]
  /\ al' = [al EXCEPT ![p] = IdleAl]
  /\ top' = EndTop(p)
  /\ UNCHANGED <<flickr, airlines, airports, aircraft, flights, ap, ac, ph, cf, now, tz, calls>>

(***************************************************************************)
(* Airport: the external airport-info lookup, the store and the resolver.  *)
(***************************************************************************)
Sides == {"origin", "destination"}

\* icaoToIataAirport(icaoCode)
IcaoToIataAirport(icao) ==
  LET n == ToUpperCase(icao)
  IN IF \E e \in IcaoToIataMap : e[1] = n
     THEN (CHOOSE e \in IcaoToIataMap : e[1] = n)[2]
     ELSE Null

UnknownText == <<"U", "n", "k", "n", "o", "w", "n">>

AirportWord == <<"A", "i", "r", "p", "o", "r", "t", " ">>

\* What the flight-data provider holds for an airport code: the fields
\* getAirportInfo copies out of its answer (code falls back to the code asked).
ProviderAirports ==
  { [code |-> <<"R","J","T","T">>, codeIata |-> <<"H","N","D">>,
     name |-> <<"H","a","n","e","d","a">>, city |-> <<"T","o","k","y","o">>],
    [code |-> <<"K","J","F","K">>, codeIata |-> <<"J","F","K">>,
     name |-> <<"K","e","n","n","e","d","y">>, city |-> <<"N","Y">>],
    [code |-> <<"E","D","D","M">>, codeIata |-> <<"M","U","C">>,
     name |-> <<"M","u","n","i","c","h">>, city |-> Null],
    [code |-> <<"Z","Z","Z","Z">>, codeIata |-> Null,
     name |-> Null, city |-> Null] }

\* getAirportInfo(code): the provider's answer, null (not found, network
\* error) or a thrown AppError (401, 429)
AirportInfoOutcomes(code) ==
  LET n == Trim(ToUpperCase(code))
  IN {[kind |-> "throw"], [kind |-> "null"]}
       \cup {[kind |-> "info", info |-> a] : a \in {b \in ProviderAirports : b.code = n}}

\* Airport schema: iataCode of three letters, icaoCode (when set) of four
AirportValid(d) ==
  /\ Truthy(d.name)
  /\ IsUpperLetters(d.iataCode, 3)
  /\ (Truthy(d.icaoCode) => IsUpperLetters(d.icaoCode, 4))

AirportByIata(c) == {i \in 1..Len(airports) : airports[i].iataCode = c}

AirportByIcao(c) == {i \in 1..Len(airports) : airports[i].icaoCode = c}

\* a variant of the indexes below without the iataCode index
AirportDupKeyIcao(d, self) ==
  Truthy(d.icaoCode) /\ \E i \in AirportByIcao(d.icaoCode) : i # self

\* airports indexes: iataCode unique; icaoCode unique and sparse.  self is the
\* record being saved (0 for an insert).
AirportDupKey(d, self) ==
  \/ \E i \in AirportByIata(d.iataCode) : i # self
  \/ Truthy(d.icaoCode) /\ \E i \in AirportByIcao(d.icaoCode) : i # self

NoAirportDoc ==
  [name |-> Null, city |-> Null, country |-> "", iataCode |-> Null, icaoCode |-> Null,
   timezone |-> ""]

NoAirportData ==
  [present |-> FALSE, code |-> Null, codeIcao |-> Null, codeIata |-> Null,
   code_icao |-> Null, code_iata |-> Null, name |-> Null, city |-> Null]

IdleAp == [pc |-> "idle"]

ApDone(t, id, err) == [t EXCEPT !.pc = "done", !.res = id, !.err = err]

\* `I${icaoCode.substring(1)}`.toUpperCase()
SyntheticIata(icao) == ToUpperCase(<<"I">> \o Substring(icao, 1))

\* findOrCreateAirport(airportData) up to its first await (lines 412-452).
\* rows0, created and conflict are bookkeeping: the size of the collection when
\* the call started, whether it inserted a record, and the key its insert
\* conflicted on; so are via, where the IATA code came from ("given", "table",
\* "lookup", "synthetic"), and looked, what the airport-info lookups of the
\* call gave so far ("no" lookup made, "iata", or "empty").
StartAirport(d) ==
  LET base == [pc |-> "done", data |-> d, iata |-> Null, icao |-> Null, res |-> NoId,
               err |-> "", rows0 |-> Len(airports), created |-> FALSE, doc |-> NoId,
               read |-> NoAirportDoc, set |-> NoAirportDoc, conflict |-> "",
               via |-> "", looked |-> "no"]
      xIata == OrElse(d.codeIata, d.code_iata)
      xIcao == OrElse(d.codeIcao, d.code_icao)
      iata1 == IF Truthy(xIata) THEN Trim(ToUpperCase(xIata)) ELSE Null
      icao1 == IF Truthy(xIcao) THEN Trim(ToUpperCase(xIcao)) ELSE Null
      n     == Trim(ToUpperCase(d.code))
      useCode == ~Truthy(iata1) /\ ~Truthy(icao1) /\ Truthy(d.code)
      iata2 == IF useCode /\ Len(n) = 3 THEN n
               ELSE IF useCode /\ Len(n) = 4 THEN IcaoToIataAirport(n) ELSE iata1
      icao2 == IF useCode /\ Len(n) = 4 THEN n ELSE icao1
      via   == IF ~Truthy(iata2) THEN ""
               ELSE IF useCode /\ Len(n) = 4 THEN "table" ELSE "given"
  IN IF ~d.present THEN [base EXCEPT !.err = "Airport data is required"]
     ELSE IF ~Truthy(d.code) /\ ~Truthy(xIcao) /\ ~Truthy(xIata)
     THEN [base EXCEPT !.err = "Airport code is required"]
     ELSE IF ~Truthy(iata2) /\ ~Truthy(icao2)
     THEN [base EXCEPT !.err = "Airport code (IATA or ICAO) is required to create new airport"]
     ELSE [base EXCEPT !.iata = iata2, !.icao = icao2, !.via = via,
                       !.pc = IF ~Truthy(iata2) THEN "lookup1" ELSE "findIata"]

\* lines 452-480: the airport-info lookup, then the static table
AirportLookup1(p, s) ==
  /\ ap[p][s].pc = "lookup1"
  /\ \E o \in AirportInfoOutcomes(ap[p][s].icao) :
       LET got  == IF o.kind = "info" /\ Truthy(o.info.codeIata)
                   THEN Trim(ToUpperCase(o.info.codeIata)) ELSE Null
           iata == IF Truthy(got) THEN got ELSE IcaoToIataAirport(ap[p][s].icao)
       IN ap' = [ap EXCEPT ![p][s] =
                   [@ EXCEPT !.iata = iata,
                             !.via = IF Truthy(got) THEN "lookup"
                                     ELSE IF Truthy(iata) THEN "table" ELSE "",
                             !.looked = IF Truthy(got) THEN "iata" ELSE "empty",
                             !.pc = IF Truthy(iata) THEN "findIata" ELSE "findIcao"]]
  /\ UNCHANGED <<flickr, airlines, airports, aircraft, flights, al, ac, ph, cf, now, tz,
                 calls, last, top>>

\* the fields the back-fill of lines 499-512 sets on the found record
AirportBackfill(a, t) ==
  [a EXCEPT !.icaoCode = IF ~Truthy(a.icaoCode) /\ Truthy(t.icao) THEN t.icao ELSE @,
            !.name = IF ~Truthy(a.name) /\ Truthy(t.data.name) THEN t.data.name ELSE @,
            !.city = IF ~Truthy(a.city) /\ Truthy(t.data.city) THEN t.data.city ELSE @]

\* Airport.findOne({ iataCode }) and the back-fill of the found record
AirportFindIata(p, s) ==
  /\ ap[p][s].pc = "findIata"
  /\ LET t == ap[p][s]
         hit == AirportByIata(t.iata)
     IN ap' = [ap EXCEPT ![p][s] =
                 IF hit = {} THEN [t EXCEPT !.pc = "create"]
                 ELSE IF AirportBackfill(airports[Min(hit)], t) # airports[Min(hit)]
                 THEN [t EXCEPT !.pc = "save", !.doc = Min(hit),
                                !.read = airports[Min(hit)],
                                !.set = AirportBackfill(airports[Min(hit)], t)]
                 ELSE ApDone(t, Min(hit), "")]
  /\ UNCHANGED <<flickr, airlines, airports, aircraft, flights, al, ac, ph, cf, now, tz,
                 calls, last, top>>

\* airport.save(): writes the modified paths of the in-memory document
AirportSave(p, s) ==
  /\ ap[p][s].pc = "save"
  /\ LET t == ap[p][s]
         old == airports[t.doc]
         new == [old EXCEPT
                   !.icaoCode = IF t.set.icaoCode # t.read.icaoCode THEN t.set.icaoCode ELSE @,
                   !.name = IF t.set.name # t.read.name THEN t.set.name ELSE @,
                   !.city = IF t.set.city # t.read.city THEN t.set.city ELSE @]
     IN IF AirportDupKey(new, t.doc)
        THEN /\ ap' = [ap EXCEPT ![p][s] = ApDone(t, NoId, "E11000")]
             /\ UNCHANGED airports
        ELSE /\ airports' = [airports EXCEPT ![t.doc] = new]
             /\ ap' = [ap EXCEPT ![p][s] = ApDone(t, t.doc, "")]
  /\ UNCHANGED <<flickr, airlines, aircraft, flights, al, ac, ph, cf, now, tz, calls, last, top>>

\* Airport.findOne({ icaoCode }), reached only without an IATA code
AirportFindIcao(p, s) ==
  /\ ap[p][s].pc = "findIcao"
  /\ LET t == ap[p][s]
         hit == AirportByIcao(t.icao)
     IN ap' = [ap EXCEPT ![p][s] =
                 IF hit # {} THEN ApDone(t, Min(hit), "") ELSE [t EXCEPT !.pc = "lookup2"]]
  /\ UNCHANGED <<flickr, airlines, airports, aircraft, flights, al, ac, ph, cf, now, tz,
                 calls, last, top>>

\* lines 534-576: the last-resort lookup and the synthetic IATA code
AirportLookup2(p, s) ==
  /\ ap[p][s].pc = "lookup2"
  /\ \E o \in AirportInfoOutcomes(ap[p][s].icao) :
       LET t == ap[p][s]
           iata == IF o.kind # "info" THEN SyntheticIata(t.icao)
                   ELSE IF Truthy(o.info.codeIata) THEN Trim(ToUpperCase(o.info.codeIata))
                   ELSE IF Truthy(o.info.code) /\ Len(o.info.code) = 3
                   THEN Trim(ToUpperCase(o.info.code))
                   ELSE SyntheticIata(t.icao)
       IN ap' = [ap EXCEPT ![p][s] =
                   [t EXCEPT !.iata = iata, !.pc = "create",
                             !.via = IF iata = SyntheticIata(t.icao)
                                     THEN "synthetic" ELSE "lookup",
                             !.looked = IF iata = SyntheticIata(t.icao)
                                        THEN @ ELSE "iata"]]
  /\ UNCHANGED <<flickr, airlines, airports, aircraft, flights, al, ac, ph, cf, now, tz,
                 calls, last, top>>

\* airportCreateData (lines 578-585); name and city are the payload's own
\* (the lookup's name and city are written to airportData, not to them)
AirportCreateData(t) ==
  [name |-> OrElse(t.data.name, AirportWord \o t.iata),
   city |-> OrElse(t.data.city, UnknownText),
   country |-> "Unknown", iataCode |-> t.iata, icaoCode |-> t.icao, timezone |-> "UTC"]

\* createAirport: Airport.create(airportData)
AirportCreate(p, s) ==
  /\ ap[p][s].pc = "create"
  /\ LET t == ap[p][s]
         d == AirportCreateData(t)
     IN IF ~AirportValid(d)
        THEN /\ ap' = [ap EXCEPT ![p][s] = ApDone(t, NoId, "ValidationError")]
             /\ UNCHANGED airports
        ELSE IF AirportDupKey(d, NoId)
        THEN /\ ap' = [ap EXCEPT ![p][s] =
                         [t EXCEPT !.pc = "refetch",
                            !.conflict = IF AirportByIata(d.iataCode) # {}
                                         THEN "iataCode" ELSE "icaoCode"]]
             /\ UNCHANGED airports
        ELSE /\ airports' = Append(airports, d)
             /\ ap' = [ap EXCEPT ![p][s] =
                         [ApDone(t, Len(airports) + 1, "") EXCEPT !.created = TRUE]]
  /\ UNCHANGED <<flickr, airlines, aircraft, flights, al, ac, ph, cf, now, tz, calls, last, top>>

\* createAirport's catch of error 11000: Airport.findOne({ iataCode })
AirportRefetch(p, s) ==
  /\ ap[p][s].pc = "refetch"
  /\ LET t == ap[p][s]
         hit == AirportByIata(t.iata)
     IN ap' = [ap EXCEPT ![p][s] =
                 IF hit # {} THEN ApDone(t, Min(hit), "") ELSE ApDone(t, NoId, "E11000")]
  /\ UNCHANGED <<flickr, airlines, airports, aircraft, flights, al, ac, ph, cf, now, tz,
                 calls, last, top>>

\* the payloads callers pass to the airport resolver
ApData(code, icao, iata, name, city) ==
  [present |-> TRUE, code |-> code, codeIcao |-> icao, codeIata |-> iata,
   code_icao |-> Null, code_iata |-> Null, name |-> name, city |-> city]

AirportPayloads ==
  { ApData(Null, Null, <<"J","F","K">>, Null, Null),
    ApData(Null, <<"K","J","F","K">>, <<"j","f","k">>, Null, <<"N","Y">>),
    ApData(<<"K","J","F","K">>, Null, Null, Null, Null),
    ApData(Null, <<"R","J","T","T">>, Null, Null, Null),
    ApData(Null, <<"E","D","D","M">>, Null, Null, Null),
    ApData(<<"A","B">>, Null, Null, Null, Null),
    NoAirportData }

\* a caller invokes findOrCreateAirport(d), d drawn from payloads
CallAirport(p, payloads, max) ==
  /\ top[p].op = "none"
  /\ calls < max
  /\ \E d \in payloads : ap' = [ap EXCEPT ![p]["origin"] = StartAirport(d)]
  /\ top' = BeginTop(p, "airport")
  /\ calls' = calls + 1
  /\ UNCHANGED <<flickr, airlines, airports, aircraft, flights, al, ac, ph, cf, now, tz, last>>

\* the call returns (or throws) to its caller
ReturnAirport(p) ==
  /\ top[p].op = "airport"
  /\ ap[p]["origin"].pc = "done"
  /\ last' = [op |-> "airport", key |-> ap[p]["origin"].data, res |-> ap[p]["origin"].res,
              err |-> ap[p]["origin"].err, solo |-> top[p].solo]
  /\ ap' = [ap EXCEPT ![p]["origin"] = IdleAp]
  /\ top' = EndTop(p)
  /\ UNCHANGED <<flickr, airlines, airports, aircraft, flights, al, ac, ph, cf, now, tz, calls>>

(***************************************************************************)
(* Aircraft: type tables, schema, the resolver and the photo enrichment.   *)
(***************************************************************************)
\* extractManufacturer(aircraftType)
ExtractManufacturer(aircraftType) ==
  LET type == ToUpperCase(aircraftType)
  IN IF ~Truthy(aircraftType) THEN Null
     ELSE IF StartsWith(type, <<"B">>) \/ Includes(type, <<"B","O","E","I","N","G">>) THEN <<"B","o","e","i","n","g">>
     ELSE IF StartsWith(type, <<"A">>) \/ Includes(type, <<"A","I","R","B","U","S">>) THEN <<"A","i","r","b","u","s">>
     ELSE IF StartsWith(type, <<"E">>) \/ Includes(type, <<"E","M","B","R","A","E","R">>) THEN <<"E","m","b","r","a","e","r">>
     ELSE IF StartsWith(type, <<"C">>) \/ Includes(type, <<"B","O","M","B","A","R","D","I","E","R">>) THEN <<"B","o","m","b","a","r","d","i","e","r">>
     ELSE IF Includes(type, <<"M","D">>) \/ Includes(type, <<"M","C","D","O","N","N","E","L","L">>) THEN <<"M","c","D","o","n","n","e","l","l"," ","D","o","u","g","l","a","s">>
     ELSE IF Includes(type, <<"A","T","R">>) THEN <<"A","T","R">>
     ELSE IF Includes(type, <<"D","H","C">>) \/ Includes(type, <<"D","A","S","H">>) THEN <<"D","e"," ","H","a","v","i","l","l","a","n","d"," ","C","a","n","a","d","a">>
     ELSE Null

ModelMap ==
  { <<<<"B","7","3","8">>, <<"7","3","7","-","8","0","0">>>>, <<<<"B","7","3","9">>, <<"7","3","7","-","9","0","0">>>>, <<<<"B","3","8","M">>, <<"7","3","7","-","8"," ","M","A","X">>>>,
    <<<<"B","3","9","M">>, <<"7","3","7","-","9"," ","M","A","X">>>>, <<<<"B","7","4","4">>, <<"7","4","7","-","4","0","0">>>>, <<<<"B","7","4","8">>, <<"7","4","7","-","8">>>>,
    <<<<"B","7","7","2">>, <<"7","7","7","-","2","0","0">>>>, <<<<"B","7","7","3">>, <<"7","7","7","-","3","0","0">>>>, <<<<"B","7","7","W">>, <<"7","7","7","-","3","0","0","E","R">>>>,
    <<<<"B","7","8","8">>, <<"7","8","7","-","8">>>>, <<<<"B","7","8","9">>, <<"7","8","7","-","9">>>>, <<<<"B","7","8","X">>, <<"7","8","7","-","1","0">>>>,
    <<<<"A","3","2","0">>, <<"A","3","2","0">>>>, <<<<"A","3","2","1">>, <<"A","3","2","1">>>>, <<<<"A","2","0","N">>, <<"A","3","2","0","n","e","o">>>>,
    <<<<"A","2","1","N">>, <<"A","3","2","1","n","e","o">>>>, <<<<"A","3","3","3">>, <<"A","3","3","0","-","3","0","0">>>>, <<<<"A","3","5","9">>, <<"A","3","5","0","-","9","0","0">>>>,
    <<<<"A","3","8","0">>, <<"A","3","8","0">>>> }

\* a variant of the function below that returns every type code unchanged
ExtractModelRaw(aircraftType) == aircraftType

\* extractModel(aircraftType)
ExtractModel(aircraftType) ==
  LET type == ToUpperCase(aircraftType)
  IN IF ~Truthy(aircraftType) THEN Null
     ELSE IF \E e \in ModelMap : e[1] = type
     THEN (CHOOSE e \in ModelMap : e[1] = type)[2]
     ELSE aircraftType

\* the decimal digits of a natural number (a timestamp inside a tail number)
RECURSIVE Decimal(_)
Decimal(n) ==
  LET d == <<"0","1","2","3","4","5","6","7","8","9">>[(n % 10) + 1]
  IN IF n < 10 THEN <<d>> ELSE Decimal(n \div 10) \o <<d>>

\* aircraftSchema: tailNumber required, /^[A-Z0-9-]+$/ after the uppercase
\* and trim setters; aircraftType required
TailChars == UpperLetters \cup Digits \cup {"-"}

AircraftValid(d) ==
  /\ Truthy(d.tailNumber)
  /\ \A i \in 1..Len(d.tailNumber) : d.tailNumber[i] \in TailChars
  /\ Truthy(d.aircraftType)

\* the schema's setters, applied when a document is built
AircraftCast(d) ==
  [d EXCEPT !.tailNumber = Trim(ToUpperCase(@)), !.aircraftType = Trim(@),
            !.manufacturer = Trim(@), !.model = Trim(@)]

AircraftByTail(c) == {i \in 1..Len(aircraft) : aircraft[i].tailNumber = c}

NoAircraftData == [present |-> FALSE, registration |-> Null, type |-> Null]

NoAircraftDoc ==
  [tailNumber |-> Null, airline |-> NoId, aircraftType |-> Null, manufacturer |-> Null,
   model |-> Null, photos |-> <<>>, photoLastUpdated |-> 0, createdAt |-> 0]

IdleAc == [pc |-> "idle"]

AcDone(t, id, err) == [t EXCEPT !.pc = "done", !.res = id, !.err = err]

\* findOrCreateAircraft(aircraftData, airline) up to its first await; airline is
\* the id of the Airline document passed in (NoId for none).  rows0, created,
\* missed, tried and slot are bookkeeping: the size of the collection when the
\* call started, whether it inserted a record, whether its findOne found
\* nothing, whether its insert reached the store, and the enrichment it started.
StartAircraft(d, airline) ==
  LET base == [pc |-> "done", data |-> d, airline |-> airline, tail |-> Null,
               res |-> NoId, err |-> "", rows0 |-> Len(aircraft), created |-> FALSE,
               doc |-> NoId, read |-> NoAircraftDoc, set |-> NoAircraftDoc,
               missed |-> FALSE, tried |-> FALSE, slot |-> "none"]
  IN IF ~d.present THEN [base EXCEPT !.err = "Aircraft data is required"]
     ELSE IF ~Truthy(d.registration) /\ ~Truthy(d.type)
     THEN [base EXCEPT !.err = "Either aircraft registration or type is required"]
     ELSE IF Truthy(d.registration)
     THEN [base EXCEPT !.pc = "find", !.tail = Trim(ToUpperCase(d.registration))]
     ELSE [base EXCEPT !.pc = "create",
                       !.tail = <<"U","N","K","N","O","W","N","-">> \o d.type \o <<"-">> \o Decimal(now)]

\* the fields the back-fill of lines 36-58 sets on the found record
AircraftBackfill(a, t) ==
  [a EXCEPT
     !.aircraftType = IF ~Truthy(a.aircraftType) /\ Truthy(t.data.type) THEN t.data.type ELSE @,
     !.airline = IF a.airline = NoId /\ t.airline # NoId THEN t.airline ELSE @,
     !.manufacturer = IF ~Truthy(a.manufacturer) /\ Truthy(t.data.type)
                      THEN ExtractManufacturer(t.data.type) ELSE @,
     !.model = IF ~Truthy(a.model) /\ Truthy(t.data.type)
               THEN ExtractModel(t.data.type) ELSE @]

\* the updated flag of lines 36-58
AircraftUpdated(a, t) ==
  \/ ~Truthy(a.aircraftType) /\ Truthy(t.data.type)
  \/ a.airline = NoId /\ t.airline # NoId
  \/ ~Truthy(a.manufacturer) /\ Truthy(t.data.type)
  \/ ~Truthy(a.model) /\ Truthy(t.data.type)

\* Aircraft.findOne({ tailNumber: normalizedRegistration }) and the back-fill
AircraftFind(p) ==
  /\ ac[p].pc = "find"
  /\ LET t == ac[p]
         hit == AircraftByTail(t.tail)
     IN ac' = [ac EXCEPT ![p] =
                 IF hit = {} THEN [t EXCEPT !.pc = "create", !.missed = TRUE]
                 ELSE IF AircraftUpdated(aircraft[Min(hit)], t)
                 THEN [t EXCEPT !.pc = "save", !.doc = Min(hit), !.read = aircraft[Min(hit)],
                                !.set = AircraftBackfill(aircraft[Min(hit)], t)]
                 ELSE AcDone(t, Min(hit), "")]
  /\ UNCHANGED <<flickr, airlines, airports, aircraft, flights, al, ap, ph, cf, now, tz,
                 calls, last, top>>

\* aircraft.save(): writes the modified paths of the in-memory document
AircraftSave(p) ==
  /\ ac[p].pc = "save"
  /\ LET t == ac[p]
     IN /\ aircraft' = [aircraft EXCEPT ![t.doc] =
             [@ EXCEPT
                !.aircraftType = IF t.set.aircraftType # t.read.aircraftType
                                 THEN Trim(t.set.aircraftType) ELSE @,
                !.airline = IF t.set.airline # t.read.airline THEN t.set.airline ELSE @,
                !.manufacturer = IF t.set.manufacturer # t.read.manufacturer
                                 THEN Trim(t.set.manufacturer) ELSE @,
                !.model = IF t.set.model # t.read.model THEN Trim(t.set.model) ELSE @]]
        /\ ac' = [ac EXCEPT ![p] = AcDone(t, t.doc, "")]
  /\ UNCHANGED <<flickr, airlines, airports, flights, al, ap, ph, cf, now, tz, calls, last, top>>

\* the record createAircraft is given (lines 69-75 and 84-90), with the
\* defaults of the schema: photoLastUpdated and the createdAt timestamp
AircraftCreateData(t) ==
  [tailNumber |-> t.tail,
   aircraftType |-> IF Truthy(t.data.registration)
                    THEN OrElse(t.data.type, UnknownText) ELSE t.data.type,
   manufacturer |-> ExtractManufacturer(t.data.type),
   model |-> ExtractModel(t.data.type),
   airline |-> t.airline, photos |-> <<>>, photoLastUpdated |-> now,
   createdAt |-> now]

(***************************************************************************)
(* Photo enrichment: fetchAndSaveAircraftPhotos(aircraft), started without *)
(* await by createAircraft.  It works on the caller's in-memory document.  *)
(***************************************************************************)
PhotoSlots == {"s1", "s2"}

SlotRank(s) == IF s = "s1" THEN 1 ELSE 2

Week == 336

IdlePh == [pc |-> "idle"]

\* a variant of the method below that also asks for an update at exactly
\* seven days
NeedsPhotoUpdateAtWeek(doc) == doc.photoLastUpdated <= now - Week

\* needsPhotoUpdate(): photoLastUpdated unset or older than seven days
NeedsPhotoUpdate(doc) == doc.photoLastUpdated < now - Week

\* getAircraftTypeDisplayName(aircraftType)
TypeDisplayName(aircraftType) ==
  IF ~Truthy(aircraftType) THEN UnknownText
  ELSE IF Truthy(ExtractManufacturer(aircraftType)) /\ Truthy(ExtractModel(aircraftType))
  THEN ExtractManufacturer(aircraftType) \o <<" ">> \o ExtractModel(aircraftType)
  ELSE aircraftType

\* airlineName (lines 147-158): the documents the enrichment is given come
\* from Aircraft.create and Aircraft.findOne, whose airline is an ObjectId,
\* never a string and never a populated Airline: the branch that loads the
\* Airline is not taken, and the name property of an ObjectId is undefined
PhotoAirlineName(doc) ==
  IF doc.airline = NoId THEN Null
  ELSE Null

\* the arguments of the searchAircraftImages call of the attempt (lines
\* 176-191), for the run t with its locals aircraftTypeName and airlineName
PhotoQuery(t, attempt) ==
  IF attempt > 1
  THEN [tail |-> t.doc.tailNumber, type |-> Null, airline |-> Null]
  ELSE [tail |-> t.doc.tailNumber, type |-> t.aircraftTypeName,
        airline |-> t.airlineName]

\* fetchAndSaveAircraftPhotos(aircraft) up to its first await: the early
\* return of lines 141-145, else airlineName and aircraftTypeName are
\* computed (lines 147-161) and the first image search is issued.  at,
\* queries and results are bookkeeping: the time the run last acted on its
\* document, the arguments of its image searches, and what each returned
\* (<<"ok", number of photos>>, or <<"throw">>).
StartPhotos(id, doc) ==
  IF Len(doc.photos) > 0 /\ ~NeedsPhotoUpdate(doc)
  THEN IdlePh
  ELSE [pc |-> "search", id |-> id, doc |-> doc, attempts |-> 0,
        push |-> <<>>, plu |-> FALSE, failed |-> FALSE, err |-> "", at |-> now,
        airlineName |-> PhotoAirlineName(doc),
        aircraftTypeName |-> TypeDisplayName(doc.aircraftType),
        queries |-> <<>>, results |-> <<>>]

\* the slot a new enrichment takes: the first free one (slots are
\* interchangeable)
FreeSlots ==
  LET free == {s \in DOMAIN ph : ph[s].pc = "idle"}
  IN IF free = {} THEN {} ELSE {CHOOSE s \in free : \A r \in free : SlotRank(s) <= SlotRank(r)}

\* Aircraft.create(aircraftData) in createAircraft; on success the photo
\* enrichment is started in the background and the document returned
AircraftCreate(p) ==
  /\ ac[p].pc = "create"
  /\ LET t == ac[p]
         d == AircraftCast(AircraftCreateData(t))
     IN IF ~AircraftValid(d)
        THEN /\ ac' = [ac EXCEPT ![p] = AcDone(t, NoId, "ValidationError")]
             /\ UNCHANGED <<aircraft, ph>>
        ELSE IF AircraftByTail(d.tailNumber) # {}
        THEN /\ ac' = [ac EXCEPT ![p] = [t EXCEPT !.pc = "refetch", !.tried = TRUE]]
             /\ UNCHANGED <<aircraft, ph>>
        ELSE \E s \in FreeSlots :
               /\ aircraft' = Append(aircraft, d)
               /\ ph' = [ph EXCEPT ![s] = StartPhotos(Len(aircraft) + 1, d)]
               /\ ac' = [ac EXCEPT ![p] =
                           [AcDone(t, Len(aircraft) + 1, "") EXCEPT
                              !.created = TRUE, !.tried = TRUE, !.slot = s]]
  /\ UNCHANGED <<flickr, airlines, airports, flights, al, ap, cf, now, tz, calls, last, top>>

\* a variant of the key below: the registration as the payload spells it
RefetchKeyRaw(t) == OrElse(t.data.registration, t.tail)

\* the key of the re-fetch, aircraftData.tailNumber, cast by the schema's
\* setters as every query value is
RefetchKey(t) == Trim(ToUpperCase(t.tail))

\* createAircraft's catch of error 11000:
\* Aircraft.findOne({ tailNumber }), and a photo enrichment for a record
\* that has no photos
AircraftRefetch(p) ==
  /\ ac[p].pc = "refetch"
  /\ LET t == ac[p]
         hit == AircraftByTail(RefetchKey(t))
     IN IF hit = {}
        THEN /\ ac' = [ac EXCEPT ![p] = AcDone(t, NoId, "E11000")]
             /\ UNCHANGED ph
        ELSE IF Len(aircraft[Min(hit)].photos) = 0
        THEN \E s \in FreeSlots :
               /\ ph' = [ph EXCEPT ![s] = StartPhotos(Min(hit), aircraft[Min(hit)])]
               /\ ac' = [ac EXCEPT ![p] = [AcDone(t, Min(hit), "") EXCEPT !.slot = s]]
        ELSE /\ ac' = [ac EXCEPT ![p] = AcDone(t, Min(hit), "")]
             /\ UNCHANGED ph
  /\ UNCHANGED <<flickr, airlines, airports, aircraft, flights, al, ap, cf, now, tz,
                 calls, last, top>>

\* what an image search yields: a thrown error, or a list of photo ids
PhotoOutcomes == {<<"throw">>, <<"ok">>, <<"ok", "f1">>}

MaxAttempts == 2

\* a variant of addPhoto below that leaves photoLastUpdated alone
RECURSIVE AddPhotosUnstamped(_, _)
AddPhotosUnstamped(t, found) ==
  IF found = <<>> THEN t
  ELSE LET f == Head(found)
           dup == \E i \in 1..Len(t.doc.photos) : t.doc.photos[i] = f
       IN AddPhotosUnstamped(IF dup THEN t
                             ELSE [t EXCEPT !.doc.photos = Append(@, f),
                                            !.push = Append(@, f)],
                             Tail(found))

\* addPhoto(photoData) on the in-memory document for each photo found
RECURSIVE AddPhotos(_, _)
AddPhotos(t, found) ==
  IF found = <<>> THEN t
  ELSE LET f == Head(found)
           dup == \E i \in 1..Len(t.doc.photos) : t.doc.photos[i] = f
       IN AddPhotos(IF dup THEN t
                    ELSE [t EXCEPT !.doc.photos = Append(@, f), !.push = Append(@, f),
                                   !.doc.photoLastUpdated = now, !.plu = TRUE],
                    Tail(found))

\* a variant of the catch below that re-throws what it caught
PhotoRethrow(t) ==
  [t EXCEPT !.failed = TRUE, !.err = "image search failed", !.pc = "save"]

\* the catch of lines 217-229: photoLastUpdated is set, the save issued and
\* the error dropped; err is what the enrichment's promise rejects with
PhotoCatch(t) ==
  [t EXCEPT !.failed = TRUE, !.doc.photoLastUpdated = now, !.plu = TRUE, !.pc = "save"]

\* one searchAircraftImages call of the retry loop returns (lines 173-215), or
\* throws into the catch of lines 217-226; the document is then changed in
\* memory and its save issued
PhotoSearch(s, outcomes) ==
  /\ ph[s].pc = "search"
  /\ \E o \in outcomes :
       LET found == Tail(o)
           t == [ph[s] EXCEPT
                   !.attempts = @ + 1,
                   !.queries = Append(@, PhotoQuery(ph[s], ph[s].attempts + 1)),
                   !.results = Append(@, IF o[1] = "throw" THEN <<"throw">> ELSE <<"ok", Len(found)>>)]
       IN ph' = [ph EXCEPT ![s] =
            IF o[1] = "throw"
            THEN [PhotoCatch(t) EXCEPT !.at = now]
            ELSE IF found = <<>> /\ t.attempts < MaxAttempts THEN t
            ELSE IF found = <<>>
            THEN [t EXCEPT !.doc.photoLastUpdated = now, !.plu = TRUE, !.pc = "save",
                           !.at = now]
            ELSE [AddPhotos(t, found) EXCEPT !.pc = "save", !.at = now]]
  /\ UNCHANGED <<flickr, airlines, airports, aircraft, flights, al, ap, ac, cf, now, tz,
                 calls, last, top>>

\* aircraft.save() of the enrichment: pushes the photos added in memory and
\* sets photoLastUpdated when it was assigned
PhotoSave(s) ==
  /\ ph[s].pc = "save"
  /\ LET t == ph[s]
     IN aircraft' = [aircraft EXCEPT ![t.id] =
          [@ EXCEPT !.photos = @ \o t.push,
                    !.photoLastUpdated = IF t.plu THEN t.doc.photoLastUpdated ELSE @]]
  /\ ph' = [ph EXCEPT ![s] = IdlePh]
  /\ UNCHANGED <<flickr, airlines, airports, flights, al, ap, ac, cf, now, tz, calls, last, top>>

\* the payloads callers pass to the aircraft resolver
AcData(registration, type) ==
  [present |-> TRUE, registration |-> registration, type |-> type]

AircraftPayloads ==
  { AcData(<<"A","6","-","E","Q","A">>, <<"B","7","7","W">>),
    AcData(<<"a","6","-","e","q","a">>, Null),
    AcData(Null, <<"B","7","3","8">>),
    AcData(<<"A","6"," ","E","Q","A">>, <<"B","7","7","W">>),
    NoAircraftData }

\* a caller invokes findOrCreateAircraft(d, airline), d drawn from payloads
CallAircraft(p, payloads, max) ==
  /\ top[p].op = "none"
  /\ calls < max
  /\ \E d \in payloads, a \in {NoId} \cup (1..Len(airlines)) :
       ac' = [ac EXCEPT ![p] = StartAircraft(d, a)]
  /\ top' = BeginTop(p, "aircraft")
  /\ calls' = calls + 1
  /\ UNCHANGED <<flickr, airlines, airports, aircraft, flights, al, ap, ph, cf, now, tz, last>>

\* the call returns (or throws) to its caller
ReturnAircraft(p) ==
  /\ top[p].op = "aircraft"
  /\ ac[p].pc = "done"
  /\ last' = [op |-> "aircraft", key |-> ac[p].data, res |-> ac[p].res,
              err |-> ac[p].err, solo |-> top[p].solo]
  /\ ac' = [ac EXCEPT ![p] = IdleAc]
  /\ top' = EndTop(p)
  /\ UNCHANGED <<flickr, airlines, airports, aircraft, flights, al, ap, ph, cf, now, tz, calls>>

(***************************************************************************)
(* Flight identifier parser (parseFlightIdent, findAirlineCodeByName).     *)
(***************************************************************************)
AllIn(s, S) == \A i \in 1..Len(s) : s[i] \in S

\* \d+[A-Z]?
IsFlightNo(s) ==
  /\ Len(s) >= 1
  /\ LET body == IF s[Len(s)] \in UpperLetters THEN SubSeq(s, 1, Len(s) - 1) ELSE s
     IN Len(body) >= 1 /\ AllIn(body, Digits)

NoParse == [ok |-> FALSE, airlineCode |-> Null, flightNumber |-> Null]

\* /^([A-Z]{2,3})(\d+[A-Z]?)$/ : the code group is greedy
StandardSplits(s) ==
  {k \in {2, 3} : Len(s) > k /\ AllIn(SubSeq(s, 1, k), UpperLetters)
                  /\ IsFlightNo(SubSeq(s, k + 1, Len(s)))}

\* /^([A-Z][A-Z\s]+?)\s+(\d+[A-Z]?)$/ : <<n, m>> with the name s[1..n], white
\* space s[n+1..m] and the number after it; the name group is lazy
NameSplits(s) ==
  {nm \in (2..Len(s)) \X (3..Len(s)) :
     /\ nm[1] < nm[2] /\ nm[2] < Len(s)
     /\ s[1] \in UpperLetters
     /\ AllIn(SubSeq(s, 2, nm[1]), UpperLetters \cup {" "})
     /\ AllIn(SubSeq(s, nm[1] + 1, nm[2]), {" "})
     /\ IsFlightNo(SubSeq(s, nm[2] + 1, Len(s)))}

\* /^([A-Z]{2,3})\s+(\d+[A-Z]?)$/
SpaceSplits(s) ==
  {nm \in {2, 3} \X (3..Len(s)) :
     /\ nm[1] < nm[2] /\ nm[2] < Len(s)
     /\ AllIn(SubSeq(s, 1, nm[1]), UpperLetters)
     /\ AllIn(SubSeq(s, nm[1] + 1, nm[2]), {" "})
     /\ IsFlightNo(SubSeq(s, nm[2] + 1, Len(s)))}

\* findAirlineCodeByName(airlineName): the first table entry whose name
\* contains the given name or is contained in it, case-insensitively
FindAirlineCodeByName(airlineName) ==
  LET n == ToLowerCase(airlineName)
      hits == {i \in 1..Len(AirlineCodeMap) :
                 \/ Includes(ToLowerCase(AirlineCodeMap[i].name), n)
                 \/ Includes(n, ToLowerCase(AirlineCodeMap[i].name))}
  IN IF hits = {} THEN Null ELSE AirlineCodeMap[Min(hits)].iata

Max(S) == CHOOSE x \in S : \A y \in S : x >= y

\* parseFlightIdent(flightIdent); ok = FALSE stands for the thrown Error
ParseFlightIdent(flightIdent) ==
  LET s == ToUpperCase(Trim(flightIdent))
      std == StandardSplits(s)
      nam == NameSplits(s)
      spc == SpaceSplits(s)
      n1 == Min({nm[1] : nm \in nam})
      byName == IF nam = {} THEN Null
                ELSE FindAirlineCodeByName(Trim(SubSeq(s, 1, n1)))
      m1 == CHOOSE nm \in nam : nm[1] = n1
      k3 == Max({nm[1] : nm \in spc})
      m3 == CHOOSE nm \in spc : nm[1] = k3
  IN IF ~Truthy(flightIdent) THEN NoParse
     ELSE IF std # {}
     THEN [ok |-> TRUE, airlineCode |-> SubSeq(s, 1, Max(std)),
           flightNumber |-> SubSeq(s, Max(std) + 1, Len(s))]
     ELSE IF Truthy(byName)
     THEN [ok |-> TRUE, airlineCode |-> byName,
           flightNumber |-> SubSeq(s, m1[2] + 1, Len(s))]
     ELSE IF spc # {}
     THEN [ok |-> TRUE, airlineCode |-> SubSeq(s, 1, k3),
           flightNumber |-> SubSeq(s, m3[2] + 1, Len(s))]
     ELSE NoParse

(***************************************************************************)
(* createFlight (flightController).                                        *)
(***************************************************************************)
Day == 48

NoTime == 0

\* the calendar day of an instant in the server's local time: the day
\* new Date(getFullYear(), getMonth(), getDate()) starts
LocalDay(t) == (t + tz) \div Day

UtcDay(t) == t \div Day

\* extractFlightDate(flightData)
ExtractFlightDate(d) ==
  IF d.scheduledDeparture # NoTime THEN d.scheduledDeparture
  ELSE IF d.estimatedDeparture # NoTime THEN d.estimatedDeparture
  ELSE IF d.actualDeparture # NoTime THEN d.actualDeparture
  ELSE now

\* the catch of lines 190-223: the status answered for a thrown error
ErrorStatus(err) ==
  IF err = "Aircraft data is required" \/ err = "Airport data is required"
     \/ err = "ValidationError"
  THEN 400 ELSE 500

IdleCf == [pc |-> "idle"]

\* a variant of the record below with the two airports exchanged
NewFlightDataSwapped(t) ==
  [userId |-> t.user, flightNumber |-> t.flightNumber, airline |-> t.airline,
   date |-> t.date, originAirport |-> t.destination,
   destinationAirport |-> t.origin, aircraft |-> t.aircraft,
   flightAwareData |-> t.data]

\* newFlightData (lines 154-166)
NewFlightData(t) ==
  [userId |-> t.user, flightNumber |-> t.flightNumber, airline |-> t.airline,
   date |-> t.date, originAirport |-> t.origin,
   destinationAirport |-> t.destination, aircraft |-> t.aircraft,
   flightAwareData |-> t.data]

\* the Flight model (models/Flight.js), after the Flight entity of spec.md: the
\* owner, the flight number and the four references are required.  The flights
\* collection carries no unique index (scripts/mongo-init.js lines 27-35).
FlightValid(d) ==
  /\ d.userId # ""
  /\ Truthy(d.flightNumber)
  /\ d.airline # NoId /\ d.aircraft # NoId
  /\ d.originAirport # NoId /\ d.destinationAirport # NoId

\* a variant of the filter below that leaves the owner out
DuplicateFlightsAnyUser(user, airline, flightNumber, date) ==
  {i \in 1..Len(flights) :
     /\ flights[i].airline = airline
     /\ flights[i].flightNumber = flightNumber
     /\ LocalDay(flights[i].date) = LocalDay(date)}

\* a variant of the filter below that leaves the day out
DuplicateFlightsAnyDay(user, airline, flightNumber, date) ==
  {i \in 1..Len(flights) :
     /\ flights[i].userId = user
     /\ flights[i].airline = airline
     /\ flights[i].flightNumber = flightNumber}

\* the filter of the duplicate check (lines 136-144)
DuplicateFlights(user, airline, flightNumber, date) ==
  {i \in 1..Len(flights) :
     /\ flights[i].userId = user
     /\ flights[i].airline = airline
     /\ flights[i].flightNumber = flightNumber
     /\ LocalDay(flights[i].date) = LocalDay(date)}

Respond(t, status, err) == [t EXCEPT !.pc = "responded", !.status = status, !.err = err]

\* a request reaches createFlight: the ident is parsed and the airline
\* resolver started (lines 85-115).  flights0 and rows0 are bookkeeping: the
\* sizes of the collections when the request arrived.
CallFlight(p, users, payloads, max) ==
  /\ top[p].op = "none"
  /\ calls < max
  /\ \E u \in users, d \in payloads :
       LET base == [pc |-> "airline", user |-> u, data |-> d, status |-> 0, err |-> "",
                    airline |-> NoId, flightNumber |-> Null, aircraft |-> NoId,
                    origin |-> NoId, destination |-> NoId, date |-> NoTime,
                    flight |-> NoId, flights0 |-> Len(flights),
                    rows0 |-> <<Len(airlines), Len(airports), Len(aircraft)>>]
           parsed == ParseFlightIdent(d.ident)
       IN IF ~parsed.ok
          THEN /\ cf' = [cf EXCEPT ![p] = Respond(base, ErrorStatus("Invalid flight identifier format"),
                                                  "Invalid flight identifier format")]
               /\ UNCHANGED al
          ELSE /\ cf' = [cf EXCEPT ![p] = [base EXCEPT !.flightNumber = parsed.flightNumber]]
               /\ al' = [al EXCEPT ![p] = StartAirline(parsed.airlineCode)]
  /\ top' = BeginTop(p, "flight")
  /\ calls' = calls + 1
  /\ UNCHANGED <<flickr, airlines, airports, aircraft, flights, ap, ac, ph, now, tz, last>>

\* a variant of the step below that starts the aircraft resolver and both
\* airport resolvers at once
FlightAfterAirlineEager(p) ==
  /\ cf[p].pc = "airline"
  /\ al[p].pc = "done"
  /\ IF al[p].err # ""
     THEN /\ cf' = [cf EXCEPT ![p] = Respond(@, ErrorStatus(al[p].err), al[p].err)]
          /\ UNCHANGED <<ac, ap>>
     ELSE /\ cf' = [cf EXCEPT ![p] = [@ EXCEPT !.pc = "aircraft", !.airline = al[p].res]]
          /\ ac' = [ac EXCEPT ![p] = StartAircraft(cf[p].data.aircraft, al[p].res)]
          /\ ap' = [ap EXCEPT ![p] = [s \in Sides |->
                      IF s = "origin" THEN StartAirport(cf[p].data.origin)
                      ELSE StartAirport(cf[p].data.destination)]]
  /\ UNCHANGED <<flickr, airlines, airports, aircraft, flights, al, ph, now, tz, calls, last, top>>

\* the airline resolver has answered: on an error the catch responds, else
\* the aircraft resolver is started (lines 115-119)
FlightAfterAirline(p) ==
  /\ cf[p].pc = "airline"
  /\ al[p].pc = "done"
  /\ IF al[p].err # ""
     THEN /\ cf' = [cf EXCEPT ![p] = Respond(@, ErrorStatus(al[p].err), al[p].err)]
          /\ UNCHANGED ac
     ELSE /\ cf' = [cf EXCEPT ![p] = [@ EXCEPT !.pc = "aircraft", !.airline = al[p].res]]
          /\ ac' = [ac EXCEPT ![p] = StartAircraft(cf[p].data.aircraft, al[p].res)]
  /\ UNCHANGED <<flickr, airlines, airports, aircraft, flights, al, ap, ph, now, tz, calls, last, top>>

\* the aircraft resolver has answered: both airport resolvers are started
\* (Promise.all, lines 119-127)
FlightAfterAircraft(p) ==
  /\ cf[p].pc = "aircraft"
  /\ ac[p].pc = "done"
  /\ IF ac[p].err # ""
     THEN /\ cf' = [cf EXCEPT ![p] = Respond(@, ErrorStatus(ac[p].err), ac[p].err)]
          /\ UNCHANGED ap
     ELSE /\ cf' = [cf EXCEPT ![p] = [@ EXCEPT !.pc = "airports", !.aircraft = ac[p].res]]
          /\ ap' = [ap EXCEPT ![p] = [s \in Sides |->
                      IF s = "origin" THEN StartAirport(cf[p].data.origin)
                      ELSE StartAirport(cf[p].data.destination)]]
  /\ UNCHANGED <<flickr, airlines, airports, aircraft, flights, al, ac, ph, now, tz, calls, last, top>>

\* Promise.all settles: it rejects as soon as one airport resolver has failed
\* (the other keeps running), and fulfils when both have answered; then the
\* flight date is derived and the duplicate check issued (lines 127-136)
FlightAfterAirports(p) ==
  /\ cf[p].pc = "airports"
  /\ \/ \E s \in Sides :
          /\ ap[p][s].pc = "done" /\ ap[p][s].err # ""
          /\ cf' = [cf EXCEPT ![p] = Respond(@, ErrorStatus(ap[p][s].err), ap[p][s].err)]
     \/ /\ \A s \in Sides : ap[p][s].pc = "done" /\ ap[p][s].err = ""
        /\ cf' = [cf EXCEPT ![p] =
                    [@ EXCEPT !.pc = "dupcheck", !.origin = ap[p]["origin"].res,
                              !.destination = ap[p]["destination"].res,
                              !.date = ExtractFlightDate(cf[p].data)]]
  /\ UNCHANGED <<flickr, airlines, airports, aircraft, flights, al, ap, ac, ph, now, tz,
                 calls, last, top>>

\* a variant of the duplicate check below that inserts the Flight before it
\* looks for a duplicate
FlightDupCheckLate(p) ==
  /\ cf[p].pc = "dupcheck"
  /\ LET t == cf[p]
     IN /\ flights' = Append(flights, NewFlightData(t))
        /\ cf' = [cf EXCEPT ![p] =
                    IF DuplicateFlights(t.user, t.airline, t.flightNumber, t.date) # {}
                    THEN Respond(t, 409, "already in your hangar")
                    ELSE [t EXCEPT !.pc = "populate", !.flight = Len(flights) + 1]]
  /\ UNCHANGED <<flickr, airlines, airports, aircraft, al, ap, ac, ph, now, tz, calls, last, top>>

\* Flight.findOne of the duplicate check answers (lines 136-151)
FlightDupCheck(p) ==
  /\ cf[p].pc = "dupcheck"
  /\ LET t == cf[p]
     IN cf' = [cf EXCEPT ![p] =
                 IF DuplicateFlights(t.user, t.airline, t.flightNumber, t.date) # {}
                 THEN Respond(t, 409, "already in your hangar")
                 ELSE [t EXCEPT !.pc = "create"]]
  /\ UNCHANGED <<flickr, airlines, airports, aircraft, flights, al, ap, ac, ph, now, tz,
                 calls, last, top>>

\* Flight.create(newFlightData) (lines 153-168)
FlightCreate(p) ==
  /\ cf[p].pc = "create"
  /\ LET t == cf[p]
     IN IF FlightValid(NewFlightData(t))
        THEN /\ flights' = Append(flights, NewFlightData(t))
             /\ cf' = [cf EXCEPT ![p] = [t EXCEPT !.pc = "populate",
                                                 !.flight = Len(flights) + 1]]
        ELSE /\ cf' = [cf EXCEPT ![p] = Respond(t, ErrorStatus("ValidationError"),
                                                "ValidationError")]
             /\ UNCHANGED flights
  /\ UNCHANGED <<flickr, airlines, airports, aircraft, al, ap, ac, ph, now, tz, calls, last, top>>

\* Flight.findById answers and the 201 response is sent (lines 171-188)
FlightRespond(p) ==
  /\ cf[p].pc = "populate"
  /\ cf' = [cf EXCEPT ![p] = Respond(@, 201, "")]
  /\ UNCHANGED <<flickr, airlines, airports, aircraft, flights, al, ap, ac, ph, now, tz,
                 calls, last, top>>

\* the request is over: its response is sent and none of its resolver calls
\* is still running
ReturnFlight(p) ==
  /\ top[p].op = "flight"
  /\ cf[p].pc = "responded"
  /\ al[p].pc \in {"idle", "done"}
  /\ ac[p].pc \in {"idle", "done"}
  /\ \A s \in Sides : ap[p][s].pc \in {"idle", "done"}
  /\ last' = [op |-> "flight", key |-> <<cf[p].user, cf[p].data>>, res |-> cf[p].flight,
              err |-> cf[p].err, solo |-> top[p].solo, status |-> cf[p].status]
  /\ cf' = [cf EXCEPT ![p] = IdleCf]
  /\ al' = [al EXCEPT ![p] = IdleAl]
  /\ ac' = [ac EXCEPT ![p] = IdleAc]
  /\ ap' = [ap EXCEPT ![p] = [s \in Sides |-> IdleAp]]
  /\ top' = EndTop(p)
  /\ UNCHANGED <<flickr, airlines, airports, aircraft, flights, ph, now, tz, calls>>

\* the requests of the model
FlightData(ident, ac0, origin, destination, sched) ==
  [ident |-> ident, aircraft |-> ac0, origin |-> origin, destination |-> destination,
   scheduledDeparture |-> sched, estimatedDeparture |-> NoTime, actualDeparture |-> NoTime]

Users == {"u1", "u2"}

Dxb == ApData(Null, Null, <<"D","X","B">>, Null, Null)

Jfk == ApData(Null, Null, <<"J","F","K">>, Null, Null)

A6Eqa == AcData(<<"A","6","-","E","Q","A">>, <<"B","7","7","W">>)

\* time passes
Tick(max) ==
  /\ now < max
  /\ now' = now + 1
  /\ UNCHANGED <<flickr, airlines, airports, aircraft, flights, al, ap, ac, ph, cf, tz,
                 calls, last, top>>

(***************************************************************************)
(* The image-search service (FlickrService): its API key and its in-memory *)
(* cache, a Map from cache key to { data, timestamp }, held as the set of  *)
(* its entries.  The enrichment's PhotoSearch draws the answer of the      *)
(* service from every outcome and does not go through the cache.           *)
(***************************************************************************)
\* cacheExpiry: 30 minutes
CacheExpiry == 1

IdleFlickr == [apiKey |-> TRUE, cache |-> {}]

\* Array.prototype.join('|')
RECURSIVE JoinBar(_)
JoinBar(parts) ==
  IF parts = <<>> THEN <<>>
  ELSE IF Len(parts) = 1 THEN parts[1]
  ELSE parts[1] \o <<"|">> \o JoinBar(Tail(parts))

\* getCacheKey(registration, aircraftType, airline)
GetCacheKey(registration, aircraftType, airline) ==
  <<"f","l","i","c","k","r",":">> \o ToLowerCase(JoinBar(SelectSeq(<<registration, aircraftType, airline>>, Truthy)))

\* a variant of the method below that does not look at the entry's age
GetCachedResultAnyAge(cacheKey) == {e \in flickr.cache : e.key = cacheKey}

\* getCachedResult(cacheKey): the entry of the key when it is not expired
\* (the empty set stands for null)
GetCachedResult(cacheKey) ==
  {e \in flickr.cache : e.key = cacheKey /\ now - e.timestamp < CacheExpiry}

\* setCachedResult(cacheKey, data): Map.set replaces the entry of the key
SetCachedResult(cache, cacheKey, data) ==
  {e \in cache : e.key # cacheKey} \cup {[key |-> cacheKey, data |-> data, timestamp |-> now]}

\* clearCachedResult(registration, aircraftType, airline): Map.delete
ClearedResult(cache, registration, aircraftType, airline) ==
  {e \in cache : e.key # GetCacheKey(registration, aircraftType, airline)}

\* what the provider answers to a search: photos (none, one, two), or any
\* failure of the call (timeout, HTTP error, stat other than ok)
FlickrOutcomes ==
  {[ok |-> TRUE, photos |-> f] : f \in {<<>>, <<"g1">>, <<"g1", "g2">>}}
    \cup {[ok |-> FALSE, photos |-> <<>>]}

\* searchAircraftImages(registration, aircraftType, airline) up to its first
\* await, on the service state f, for the request record t: without an API
\* key and on a cache hit it returns at once, else the provider is called.
\* source and contacted are bookkeeping: where the answer came from and
\* whether the provider was called.
StartSearch(t, f, registration, aircraftType, airline) ==
  LET cacheKey == GetCacheKey(registration, aircraftType, airline)
      cached == {e \in GetCachedResult(cacheKey) : e \in f.cache}
  IN IF ~f.apiKey
     THEN [t EXCEPT !.pc = "searched", !.key = cacheKey, !.images = <<>>, !.source = "nokey"]
     ELSE IF cached # {}
     THEN [t EXCEPT !.pc = "searched", !.key = cacheKey, !.source = "cache",
                    !.images = (CHOOSE e \in cached : TRUE).data]
     ELSE [t EXCEPT !.pc = "provider", !.key = cacheKey]

\* a request that has not called the service
NoSearch(op, query) ==
  [pc |-> "idle", op |-> op, query |-> query, key |-> Null, images |-> <<>>,
   source |-> "", contacted |-> FALSE, status |-> 0, err |-> "",
   image |-> Null, doc |-> NoAircraftDoc]

\* the provider's call settles (lines 138-199): the processed photos, or the
\* empty list after any failure, are cached under the key and returned
ProviderAnswers(p) ==
  /\ cf[p].pc = "provider"
  /\ \E o \in FlickrOutcomes :
       /\ cf' = [cf EXCEPT ![p] = [@ EXCEPT !.pc = "searched", !.images = o.photos,
                                            !.source = "provider", !.contacted = TRUE]]
       /\ flickr' = [flickr EXCEPT !.cache = SetCachedResult(@, cf[p].key, o.photos)]
  /\ UNCHANGED <<airlines, airports, aircraft, flights, al, ap, ac, ph, now, tz,
                 calls, last, top>>

\* the (registration, aircraftType, airline) triples callers search for
ImageQueries ==
  { [registration |-> <<"A","6","-","E","Q","A">>, aircraftType |-> Null, airline |-> Null],
    [registration |-> <<"a","6","-","e","q","a">>, aircraftType |-> Null, airline |-> Null],
    [registration |-> <<"A","6","-","E","Q","A">>, aircraftType |-> <<"B","7","7","W">>, airline |-> Null] }

\* a caller invokes searchAircraftImages(q), q drawn from queries
CallSearch(p, queries, max) ==
  /\ top[p].op = "none"
  /\ calls < max
  /\ \E q \in queries :
       cf' = [cf EXCEPT ![p] =
                StartSearch(NoSearch("search", q), flickr,
                            q.registration, q.aircraftType, q.airline)]
  /\ top' = BeginTop(p, "search")
  /\ calls' = calls + 1
  /\ UNCHANGED <<airlines, airports, aircraft, flights, al, ap, ac, ph, now, tz, last,
                 flickr>>

\* searchAircraftImages returns to its caller
ReturnSearch(p) ==
  /\ top[p].op = "search"
  /\ cf[p].pc = "searched"
  /\ last' = [op |-> "search", key |-> cf[p].key, res |-> cf[p].images,
              err |-> "", solo |-> top[p].solo]
  /\ cf' = [cf EXCEPT ![p] = IdleCf]
  /\ top' = EndTop(p)
  /\ UNCHANGED <<airlines, airports, aircraft, flights, al, ap, ac, ph, now, tz, calls,
                 flickr>>

\* clearCachedResult(q) is called, q drawn from queries
ClearCachedResult(queries) ==
  /\ \E q \in queries :
       flickr' = [flickr EXCEPT
                    !.cache = ClearedResult(@, q.registration, q.aircraftType, q.airline)]
  /\ flickr' # flickr
  /\ UNCHANGED <<airlines, airports, aircraft, flights, al, ap, ac, ph, cf, now, tz,
                 calls, last, top>>

\* clearCache() is called
ClearCache ==
  /\ flickr.cache # {}
  /\ flickr' = [flickr EXCEPT !.cache = {}]
  /\ UNCHANGED <<airlines, airports, aircraft, flights, al, ap, ac, ph, cf, now, tz,
                 calls, last, top>>

(***************************************************************************)
(* getAircraftImage of the aircraft controller.                            *)
(***************************************************************************)
\* one hour
Hour == 2

\* a variant of the test below that never holds
RecentlyCheckedNever(doc) == FALSE

\* photoLastUpdated && photoLastUpdated > oneHourAgo (lines 183-184)
RecentlyChecked(doc) == doc.photoLastUpdated > now - Hour

\* the query parameters of the requests: a stored registration, an unknown
\* one, an aircraft type alone, nothing
ImageRequests ==
  { [registration |-> <<"a","6","-","e","q","a">>, aircraftType |-> Null, airline |-> Null],
    [registration |-> <<"N","1","2","3","A","B">>, aircraftType |-> Null, airline |-> Null],
    [registration |-> Null, aircraftType |-> <<"B","7","7","W">>, airline |-> Null],
    [registration |-> Null, aircraftType |-> Null, airline |-> Null] }

\* a request reaches getAircraftImage (lines 135-148): without any parameter
\* it is answered 400; with a registration Aircraft.findOne is issued; else
\* the image service is called
CallImage(p, requests, max) ==
  /\ top[p].op = "none"
  /\ calls < max
  /\ \E q \in requests :
       cf' = [cf EXCEPT ![p] =
                IF ~Truthy(q.registration) /\ ~Truthy(q.aircraftType) /\ ~Truthy(q.airline)
                THEN Respond(NoSearch("image", q), 400,
                             "At least one search parameter is required")
                ELSE IF Truthy(q.registration)
                THEN [NoSearch("image", q) EXCEPT !.pc = "find"]
                ELSE StartSearch(NoSearch("image", q), flickr,
                                 q.registration, q.aircraftType, q.airline)]
  /\ top' = BeginTop(p, "image")
  /\ calls' = calls + 1
  /\ UNCHANGED <<airlines, airports, aircraft, flights, al, ap, ac, ph, now, tz, last,
                 flickr>>

\* Aircraft.findOne({ tailNumber }) answers (lines 148-206): the first stored
\* photo is sent; or "no image" for an aircraft without photos that was
\* checked within the hour; else the cache entry of the request is cleared
\* and the image service called.  doc is bookkeeping: the document found.
ImageFind(p) ==
  /\ cf[p].pc = "find"
  /\ LET t == cf[p]
         q == t.query
         hit == AircraftByTail(ToUpperCase(q.registration))
         doc == IF hit = {} THEN NoAircraftDoc ELSE aircraft[Min(hit)]
         seen == [t EXCEPT !.doc = doc]
         cleared == [flickr EXCEPT
                       !.cache = ClearedResult(@, q.registration, q.aircraftType, q.airline)]
     IN IF hit # {} /\ Len(doc.photos) > 0
        THEN /\ cf' = [cf EXCEPT ![p] =
                         [Respond(seen, 200, "") EXCEPT !.image = <<doc.photos[1]>>,
                                                        !.source = "database"]]
             /\ UNCHANGED flickr
        ELSE IF hit # {} /\ RecentlyChecked(doc)
        THEN /\ cf' = [cf EXCEPT ![p] = [Respond(seen, 200, "") EXCEPT !.source = "recent"]]
             /\ UNCHANGED flickr
        ELSE /\ flickr' = cleared
             /\ cf' = [cf EXCEPT ![p] =
                         StartSearch(seen, cleared, q.registration, q.aircraftType, q.airline)]
  /\ UNCHANGED <<airlines, airports, aircraft, flights, al, ap, ac, ph, now, tz,
                 calls, last, top>>

\* flickrService.getAircraftImage returned: the first image or null is sent
\* (lines 204-229)
ImageRespond(p) ==
  /\ top[p].op = "image"
  /\ cf[p].pc = "searched"
  /\ cf' = [cf EXCEPT ![p] =
              [Respond(@, 200, "") EXCEPT
                 !.image = IF cf[p].images = <<>> THEN Null ELSE <<cf[p].images[1]>>]]
  /\ UNCHANGED <<airlines, airports, aircraft, flights, al, ap, ac, ph, now, tz,
                 calls, last, top, flickr>>

\* the response has been sent
ReturnImage(p) ==
  /\ top[p].op = "image"
  /\ cf[p].pc = "responded"
  /\ last' = [op |-> "image", key |-> cf[p].query, res |-> cf[p].image,
              err |-> cf[p].err, solo |-> top[p].solo, status |-> cf[p].status]
  /\ cf' = [cf EXCEPT ![p] = IdleCf]
  /\ top' = EndTop(p)
  /\ UNCHANGED <<airlines, airports, aircraft, flights, al, ap, ac, ph, now, tz, calls,
                 flickr>>

(***************************************************************************)
(* Specifications.  Each one runs the operations of one part of the        *)
(* pipeline on its own inputs; the steps listed in a next-state relation   *)
(* are the steps its inputs can reach.                                     *)
(***************************************************************************)
\* how many top-level calls a behaviour of each specification starts
MaxAirlineCalls == 3

MaxAirportCalls == 2

MaxAircraftCalls == 2

MaxBackfillCalls == 2

MaxRaceCalls == 2

MaxHangarCalls == 2

MaxResubmitCalls == 2

MaxPhotoCalls == 2

MaxAssemblyCalls == 2

\* how far the clock advances
MaxTime == 1

InitCommon ==
  /\ now = 0
  /\ airlines = <<>>
  /\ airports = <<>>
  /\ aircraft = <<>>
  /\ flights = <<>>
  /\ al = [p \in Procs |-> IdleAl]
  /\ ap = [p \in Procs |-> [s \in Sides |-> IdleAp]]
  /\ ac = [p \in Procs |-> IdleAc]
  /\ ph = [s \in PhotoSlots |-> IdlePh]
  /\ cf = [p \in Procs |-> IdleCf]
  /\ calls = 0
  /\ last = [op |-> "none"]
  /\ top = [p \in Procs |-> IdleTop]
  /\ flickr = IdleFlickr

(***************************************************************************)
(* Two callers of findOrCreateAirline on an empty store.                   *)
(***************************************************************************)
InitAirline == InitCommon /\ tz = 0

NextAirline ==
  \E p \in Procs :
    \/ CallAirline(p, AirlineCodes, MaxAirlineCalls)
    \/ AirlineFindIata(p)
    \/ AirlineFindIcao(p)
    \/ AirlineCreate(p)
    \/ AirlineRefetch(p)
    \/ ReturnAirline(p)

SpecAirline == InitAirline /\ [][NextAirline]_vars

(***************************************************************************)
(* Two callers of findOrCreateAirport on an empty store.                   *)
(***************************************************************************)
InitAirport == InitCommon /\ tz = 0

NextAirport ==
  \E p \in Procs :
    \/ CallAirport(p, AirportPayloads, MaxAirportCalls)
    \/ AirportLookup1(p, "origin")
    \/ AirportFindIata(p, "origin")
    \/ AirportSave(p, "origin")
    \/ AirportFindIcao(p, "origin")
    \/ AirportLookup2(p, "origin")
    \/ AirportCreate(p, "origin")
    \/ AirportRefetch(p, "origin")
    \/ ReturnAirport(p)

SpecAirport == InitAirport /\ [][NextAirport]_vars

(***************************************************************************)
(* Two callers of findOrCreateAircraft on an empty store, with the photo   *)
(* enrichments their calls start.                                          *)
(***************************************************************************)
InitAircraft == InitCommon /\ tz = 0

NextAircraft ==
  \/ \E p \in Procs :
       \/ CallAircraft(p, AircraftPayloads, MaxAircraftCalls)
       \/ AircraftFind(p)
       \/ AircraftSave(p)
       \/ AircraftCreate(p)
       \/ AircraftRefetch(p)
       \/ ReturnAircraft(p)
  \/ \E s \in PhotoSlots : PhotoSearch(s, PhotoOutcomes) \/ PhotoSave(s)

SpecAircraft == InitAircraft /\ [][NextAircraft]_vars

(***************************************************************************)
(* Two callers of findOrCreateAircraft for an aircraft that was stored     *)
(* from a payload without a type: the calls find it and back-fill it.      *)
(***************************************************************************)
UntypedA6Eqa ==
  AircraftCast(AircraftCreateData(
    [tail |-> <<"A","6","-","E","Q","A">>, data |-> AcData(<<"A","6","-","E","Q","A">>, Null), airline |-> NoId]))

BackfillPayloads == {AcData(<<"A","6","-","E","Q","A">>, <<"B","7","7","W">>), AcData(<<"a","6","-","e","q","a">>, <<"A","3","5","9">>)}

InitBackfill ==
  /\ now = 0
  /\ tz = 0
  /\ airlines = <<>>
  /\ airports = <<>>
  /\ aircraft = <<UntypedA6Eqa>>
  /\ flights = <<>>
  /\ al = [p \in Procs |-> IdleAl]
  /\ ap = [p \in Procs |-> [s \in Sides |-> IdleAp]]
  /\ ac = [p \in Procs |-> IdleAc]
  /\ ph = [s \in PhotoSlots |-> IdlePh]
  /\ cf = [p \in Procs |-> IdleCf]
  /\ calls = 0
  /\ last = [op |-> "none"]
  /\ top = [p \in Procs |-> IdleTop]
  /\ flickr = IdleFlickr

NextBackfill ==
  \E p \in Procs :
    \/ CallAircraft(p, BackfillPayloads, MaxBackfillCalls)
    \/ AircraftFind(p)
    \/ AircraftSave(p)
    \/ ReturnAircraft(p)

SpecBackfill == InitBackfill /\ [][NextBackfill]_vars

(***************************************************************************)
(* Two callers of createFlight on a store that already holds the airline,  *)
(* the aircraft (with a photo) and both airports of their payloads: every  *)
(* resolver finds its record.                                              *)
(***************************************************************************)
StoredAirport(d) ==
  AirportCreateData([data |-> d, iata |-> Trim(ToUpperCase(d.codeIata)), icao |-> Null])

StoredA6Eqa ==
  [AircraftCast(AircraftCreateData([tail |-> <<"A","6","-","E","Q","A">>, data |-> A6Eqa, airline |-> 1]))
     EXCEPT !.photos = <<"f1">>]

RacePayloads ==
  { FlightData(<<"E","K","2","2","1">>, A6Eqa, Dxb, Jfk, 10),
    FlightData(<<"E","K","2","2","1">>, A6Eqa, Dxb, Jfk, 20) }

InitRace ==
  /\ now = 0
  /\ tz = 0
  /\ airlines = <<AirlineDataFor(<<"E","K">>)>>
  /\ airports = <<StoredAirport(Dxb), StoredAirport(Jfk)>>
  /\ aircraft = <<StoredA6Eqa>>
  /\ flights = <<>>
  /\ al = [p \in Procs |-> IdleAl]
  /\ ap = [p \in Procs |-> [s \in Sides |-> IdleAp]]
  /\ ac = [p \in Procs |-> IdleAc]
  /\ ph = [s \in PhotoSlots |-> IdlePh]
  /\ cf = [p \in Procs |-> IdleCf]
  /\ calls = 0
  /\ last = [op |-> "none"]
  /\ top = [p \in Procs |-> IdleTop]
  /\ flickr = IdleFlickr

NextRace ==
  \E p \in Procs :
    \/ CallFlight(p, {"u1"}, RacePayloads, MaxRaceCalls)
    \/ AirlineFindIata(p)
    \/ FlightAfterAirline(p)
    \/ AircraftFind(p)
    \/ FlightAfterAircraft(p)
    \/ \E s \in Sides : AirportFindIata(p, s)
    \/ FlightAfterAirports(p)
    \/ FlightDupCheck(p)
    \/ FlightCreate(p)
    \/ FlightRespond(p)
    \/ ReturnFlight(p)

SpecRace == InitRace /\ [][NextRace]_vars

(***************************************************************************)
(* One caller sending createFlight requests one after the other to an      *)
(* empty store, with the photo enrichments the requests start.  The steps  *)
(* are those such requests reach: their airports carry IATA codes, their   *)
(* aircraft a type, and no two of them overlap.                            *)
(***************************************************************************)
Caller == "p1"

SequentialSteps ==
  \/ AirlineFindIata(Caller)
  \/ AirlineFindIcao(Caller)
  \/ AirlineCreate(Caller)
  \/ FlightAfterAirline(Caller)
  \/ AircraftFind(Caller)
  \/ AircraftCreate(Caller)
  \/ FlightAfterAircraft(Caller)
  \/ \E s \in Sides : AirportFindIata(Caller, s)
  \/ \E s \in Sides : AirportCreate(Caller, s)
  \/ FlightAfterAirports(Caller)
  \/ FlightDupCheck(Caller)
  \/ FlightCreate(Caller)
  \/ FlightRespond(Caller)
  \/ ReturnFlight(Caller)

\* the same flight at two times of one UTC day and on the next day
HangarPayloads ==
  { FlightData(<<"E","K","2","2","1">>, A6Eqa, Dxb, Jfk, 10),
    FlightData(<<"e","k"," ","2","2","1">>, A6Eqa, Dxb, Jfk, 20),
    FlightData(<<"E","K","2","2","1">>, A6Eqa, Dxb, Jfk, 58) }

TimeZones == {0, 30}

InitHangar == InitCommon /\ tz \in TimeZones

NextHangar ==
  \/ CallFlight(Caller, Users, HangarPayloads, MaxHangarCalls)
  \/ SequentialSteps
  \/ \E s \in PhotoSlots : PhotoSearch(s, PhotoOutcomes) \/ PhotoSave(s)

SpecHangar == InitHangar /\ [][NextHangar]_vars

(***************************************************************************)
(* The same caller with a payload that carries a registration and one that *)
(* does not, every outcome of the image search, and a clock that advances. *)
(***************************************************************************)
ResubmitPayloads ==
  { FlightData(<<"E","K","2","2","1">>, A6Eqa, Dxb, Jfk, 10),
    FlightData(<<"E","K","2","2","1">>, AcData(Null, <<"B","7","3","8">>), Dxb, Jfk, 10) }

InitResubmit == InitCommon /\ tz = 0

NextResubmit ==
  \/ CallFlight(Caller, {"u1"}, ResubmitPayloads, MaxResubmitCalls)
  \/ SequentialSteps
  \/ AircraftRefetch(Caller)
  \/ \E s \in PhotoSlots : PhotoSearch(s, PhotoOutcomes) \/ PhotoSave(s)
  \/ Tick(MaxTime)

SpecResubmit == InitResubmit /\ [][NextResubmit]_vars

(***************************************************************************)
(* Two callers of findOrCreateAircraft for one aircraft, spelled in two    *)
(* ways, on an empty store, with every outcome of the image search and a   *)
(* clock that advances: the photo enrichments of the creating call and of  *)
(* the call that lost the creation race overlap.                           *)
(***************************************************************************)
PhotoPayloads == {AcData(<<"A","6","-","E","Q","A">>, <<"B","7","7","W">>), AcData(<<"a","6","-","e","q","a">>, <<"B","7","7","W">>)}

InitPhotos == InitCommon /\ tz = 0

NextPhotos ==
  \/ \E p \in Procs :
       \/ CallAircraft(p, PhotoPayloads, MaxPhotoCalls)
       \/ AircraftFind(p)
       \/ AircraftCreate(p)
       \/ AircraftRefetch(p)
       \/ ReturnAircraft(p)
  \/ \E s \in PhotoSlots : PhotoSearch(s, PhotoOutcomes) \/ PhotoSave(s)
  \/ Tick(MaxTime)

SpecPhotos == InitPhotos /\ [][NextPhotos]_vars

(***************************************************************************)
(* parseFlightIdent applied to the identifiers written from an entry of    *)
(* the static airline table and a flight number: glued ("EK221"), spaced   *)
(* ("EK 221") and with the airline's full name ("Emirates 221").           *)
(***************************************************************************)
FlightNumbers == {<<"1">>, <<"2","2","1">>, <<"1","2","3","4">>, <<"2","2","1","A">>}

IdentForms == {"glued", "spaced", "named"}

WriteIdent(i, n, form) ==
  IF form = "glued" THEN AirlineCodeMap[i].iata \o n
  ELSE IF form = "spaced" THEN AirlineCodeMap[i].iata \o <<" ">> \o n
  ELSE AirlineCodeMap[i].name \o <<" ">> \o n

InitParser == InitCommon /\ tz = 0

\* a caller invokes parseFlightIdent(ident)
ParseIdent ==
  /\ last.op = "none"
  /\ \E i \in 1..Len(AirlineCodeMap), n \in FlightNumbers, form \in IdentForms :
       last' = [op |-> "parse", code |-> AirlineCodeMap[i].iata, number |-> n,
                form |-> form, out |-> ParseFlightIdent(WriteIdent(i, n, form))]
  /\ UNCHANGED <<flickr, airlines, airports, aircraft, flights, al, ap, ac, ph, cf, now, tz,
                 calls, top>>

NextParser == ParseIdent

SpecParser == InitParser /\ [][NextParser]_vars

(***************************************************************************)
(* One caller sending createFlight requests one after the other to an      *)
(* empty store: a complete payload and payloads that fail at the parser,   *)
(* at a resolver or at the validation of a record.                         *)
(***************************************************************************)
NoCodeAirport == ApData(Null, Null, Null, <<"N","o","w","h","e","r","e">>, Null)

AssemblyPayloads ==
  { FlightData(<<"E","K","2","2","1">>, A6Eqa, Dxb, Jfk, 10),
    FlightData(<<"2","2","1">>, A6Eqa, Dxb, Jfk, 10),
    FlightData(<<"E","K","2","2","1">>, NoAircraftData, Dxb, Jfk, 10),
    FlightData(<<"E","K","2","2","1">>, AcData(Null, Null), Dxb, Jfk, 10),
    FlightData(<<"E","K","2","2","1">>, AcData(<<"A","6"," ","E","Q","A">>, <<"B","7","7","W">>), Dxb, Jfk, 10),
    FlightData(<<"E","K","2","2","1">>, A6Eqa, NoAirportData, Jfk, 10),
    FlightData(<<"E","K","2","2","1">>, A6Eqa, Dxb, NoAirportData, 10),
    FlightData(<<"E","K","2","2","1">>, A6Eqa, Dxb, NoCodeAirport, 10) }

InitAssembly == InitCommon /\ tz = 0

NextAssembly ==
  \/ CallFlight(Caller, {"u1"}, AssemblyPayloads, MaxAssemblyCalls)
  \/ SequentialSteps
  \/ \E s \in PhotoSlots : PhotoSearch(s, {<<"ok", "f1">>}) \/ PhotoSave(s)

SpecAssembly == InitAssembly /\ [][NextAssembly]_vars


(***************************************************************************)
(* An empty store with one caller of createFlight and direct resolver      *)
(* calls, and a second caller of direct resolver calls, for the same       *)
(* airline, aircraft and airports under different spellings and codes, in  *)
(* any interleaving.                                                       *)
(***************************************************************************)
MaxStoreCalls == 2

KjfkBoth == ApData(Null, <<"K","J","F","K">>, <<"j","f","k">>, Null, <<"N","Y">>)

Eddm == ApData(Null, <<"E","D","D","M">>, Null, Null, Null)

A6EqaLower == AcData(<<"a","6","-","e","q","a">>, Null)

StoreFlights == {FlightData(<<"E","K","2","2","1">>, A6Eqa, Jfk, KjfkBoth, 10)}

InitStore == InitCommon /\ tz = 0

NextStore ==
  \/ CallFlight(Caller, {"u1"}, StoreFlights, MaxStoreCalls)
  \/ FlightAfterAirline(Caller) \/ FlightAfterAircraft(Caller) \/ FlightAfterAirports(Caller)
  \/ FlightDupCheck(Caller) \/ FlightCreate(Caller) \/ FlightRespond(Caller)
  \/ ReturnFlight(Caller)
  \/ \E p \in Procs :
       \/ CallAirline(p, {<<"E","K">>, <<"U","A","E">>}, MaxStoreCalls)
       \/ CallAircraft(p, {A6Eqa, A6EqaLower}, MaxStoreCalls)
       \/ CallAirport(p, {Jfk, KjfkBoth, Eddm}, MaxStoreCalls)
       \/ AirlineFindIata(p) \/ AirlineFindIcao(p) \/ AirlineCreate(p) \/ AirlineRefetch(p)
       \/ AircraftFind(p) \/ AircraftSave(p) \/ AircraftCreate(p) \/ AircraftRefetch(p)
       \/ \E s \in Sides :
            \/ AirportLookup1(p, s) \/ AirportFindIata(p, s) \/ AirportSave(p, s)
            \/ AirportFindIcao(p, s) \/ AirportLookup2(p, s) \/ AirportCreate(p, s)
            \/ AirportRefetch(p, s)
       \/ ReturnAirline(p) \/ ReturnAircraft(p) \/ ReturnAirport(p)
  \/ \E s \in PhotoSlots : PhotoSearch(s, {<<"ok", "f1">>}) \/ PhotoSave(s)

SpecStore == InitStore /\ [][NextStore]_vars

(***************************************************************************)
(* One caller sending the request EK221 / A6-EQA / OMDB to KJFK, departing *)
(* at 10:00 UTC of day 1, to an empty store.  Times count half hours.      *)
(***************************************************************************)
MaxScenarioCalls == 2

Omdb == ApData(Null, <<"O","M","D","B">>, Null, Null, Null)

Kjfk == ApData(Null, <<"K","J","F","K">>, Null, Null, Null)

ScenarioDeparture == Day + 20

ScenarioPayload == FlightData(<<"E","K","2","2","1">>, A6Eqa, Omdb, Kjfk, ScenarioDeparture)

InitScenario == InitCommon /\ tz \in TimeZones

NextScenario ==
  \/ CallFlight(Caller, {"u1"}, {ScenarioPayload}, MaxScenarioCalls)
  \/ AirlineFindIata(Caller) \/ AirlineFindIcao(Caller) \/ AirlineCreate(Caller)
  \/ FlightAfterAirline(Caller)
  \/ AircraftFind(Caller) \/ AircraftCreate(Caller)
  \/ FlightAfterAircraft(Caller)
  \/ \E s \in Sides :
       AirportLookup1(Caller, s) \/ AirportFindIata(Caller, s) \/ AirportCreate(Caller, s)
  \/ FlightAfterAirports(Caller)
  \/ FlightDupCheck(Caller) \/ FlightCreate(Caller) \/ FlightRespond(Caller)
  \/ ReturnFlight(Caller)
  \/ \E s \in PhotoSlots : PhotoSearch(s, PhotoOutcomes) \/ PhotoSave(s)

SpecScenario == InitScenario /\ [][NextScenario]_vars

(***************************************************************************)
(* lookupFlight (flightController) and searchFlights (flight-data          *)
(* service).  cf holds the position of the request, as for createFlight.   *)
(***************************************************************************)
\* how many flights the provider returns at most
MaxFound == 2

\* what the provider's HTTP call can do: a 2xx answer with a list of flights,
\* an answer with another status, no answer within the timeout, no connection
ProviderOutcomes ==
  {[kind |-> "data", flights |-> n] : n \in 0..MaxFound}
    \cup {[kind |-> "http", status |-> s] : s \in {401, 404, 429, 500, 503}}
    \cup {[kind |-> "timeout"], [kind |-> "network"]}

\* the catch of searchFlights: the status of the AppError thrown for a failed call
SearchErrorStatus(o) ==
  IF o.kind = "http" /\ o.status = 404 THEN 404
  ELSE IF o.kind = "http" /\ o.status = 429 THEN 429
  ELSE 500

\* the flight numbers callers look up (Null: none given)
LookupNumbers == {Null, <<"E","K","2","2","1">>, <<"e","m","i","r","a","t","e","s"," ","2","2","1">>}

\* a request reaches lookupFlight: without a flight number it is answered 400,
\* else the provider is called.  asked and found are bookkeeping: what the
\* provider did, and the number of flights the response carries.
CallLookup(p, numbers, max) ==
  /\ top[p].op = "none"
  /\ calls < max
  /\ \E n \in numbers :
       LET base == [pc |-> "search", number |-> n, status |-> 0, err |-> "",
                    asked |-> [kind |-> "none"], found |-> 0]
       IN cf' = [cf EXCEPT ![p] =
                   IF ~Truthy(n) THEN Respond(base, 400, "Flight number is required")
                   ELSE base]
  /\ top' = BeginTop(p, "lookup")
  /\ calls' = calls + 1
  /\ UNCHANGED <<flickr, airlines, airports, aircraft, flights, al, ap, ac, ph, now, tz, last>>

\* a variant of the step below that answers a call that got no response from
\* the provider with an empty list
SearchAnswersDegraded(p) ==
  /\ cf[p].pc = "search"
  /\ \E o \in ProviderOutcomes :
       cf' = [cf EXCEPT ![p] =
                IF o.kind = "data"
                THEN [Respond(@, 200, "") EXCEPT !.asked = o, !.found = o.flights]
                ELSE IF o.kind = "http"
                THEN [Respond(@, SearchErrorStatus(o), "lookup failed") EXCEPT !.asked = o]
                ELSE [Respond(@, 200, "") EXCEPT !.asked = o]]
  /\ UNCHANGED <<flickr, airlines, airports, aircraft, flights, al, ap, ac, ph, now, tz,
                 calls, last, top>>

\* the provider's call settles: searchFlights returns the processed flights
\* or throws an AppError, which lookupFlight hands to the error handler
SearchAnswers(p) ==
  /\ cf[p].pc = "search"
  /\ \E o \in ProviderOutcomes :
       cf' = [cf EXCEPT ![p] =
                IF o.kind = "data"
                THEN [Respond(@, 200, "") EXCEPT !.asked = o, !.found = o.flights]
                ELSE [Respond(@, SearchErrorStatus(o), "lookup failed") EXCEPT !.asked = o]]
  /\ UNCHANGED <<flickr, airlines, airports, aircraft, flights, al, ap, ac, ph, now, tz,
                 calls, last, top>>

\* the response is sent
ReturnLookup(p) ==
  /\ top[p].op = "lookup"
  /\ cf[p].pc = "responded"
  /\ last' = [op |-> "lookup", key |-> cf[p].number, res |-> cf[p].found,
              err |-> cf[p].err, solo |-> top[p].solo, status |-> cf[p].status]
  /\ cf' = [cf EXCEPT ![p] = IdleCf]
  /\ top' = EndTop(p)
  /\ UNCHANGED <<flickr, airlines, airports, aircraft, flights, al, ap, ac, ph, now, tz, calls>>

MaxLookupCalls == 2

InitLookup == InitCommon /\ tz = 0

NextLookup ==
  \E p \in Procs :
    CallLookup(p, LookupNumbers, MaxLookupCalls) \/ SearchAnswers(p) \/ ReturnLookup(p)

SpecLookup == InitLookup /\ [][NextLookup]_vars

(***************************************************************************)
(* Two callers of findOrCreateAircraft, more than a week after the stored  *)
(* aircraft was created: its photo data is stale, or was refreshed now.    *)
(***************************************************************************)
MaxStaleCalls == 2

StaleRecords ==
  { [StoredA6Eqa EXCEPT !.photoLastUpdated = 0],
    [StoredA6Eqa EXCEPT !.photoLastUpdated = Week + 1],
    [UntypedA6Eqa EXCEPT !.photoLastUpdated = 0] }

InitStale ==
  /\ now = Week + 1
  /\ tz = 0
  /\ airlines = <<AirlineDataFor(<<"E","K">>)>>
  /\ airports = <<>>
  /\ aircraft \in {<<r>> : r \in StaleRecords}
  /\ flights = <<>>
  /\ al = [p \in Procs |-> IdleAl]
  /\ ap = [p \in Procs |-> [s \in Sides |-> IdleAp]]
  /\ ac = [p \in Procs |-> IdleAc]
  /\ ph = [s \in PhotoSlots |-> IdlePh]
  /\ cf = [p \in Procs |-> IdleCf]
  /\ calls = 0
  /\ last = [op |-> "none"]
  /\ top = [p \in Procs |-> IdleTop]
  /\ flickr = IdleFlickr

NextStale ==
  \E p \in Procs :
    \/ CallAircraft(p, BackfillPayloads, MaxStaleCalls)
    \/ AircraftFind(p)
    \/ AircraftSave(p)
    \/ ReturnAircraft(p)

SpecStale == InitStale /\ [][NextStale]_vars

(***************************************************************************)
(* One caller resolves the carriers of the static table, one call after    *)
(* the other: a carrier by one of its two codes, then the same carrier     *)
(* again by either code.                                                   *)
(***************************************************************************)
MaxCarrierCalls == 2

\* the codes of the static table: every key and every icaoCode
TableCodes ==
  {AirlineCodeMap[i].iata : i \in 1..Len(AirlineCodeMap)}
    \cup {AirlineCodeMap[i].icaoCode : i \in 1..Len(AirlineCodeMap)}

\* the table entries a code names, by key or by icaoCode
CarrierOf(c) == MapByIata(c) \cup MapByIcao(c)

\* the stores the calls start from: empty, one generic airline, and Emirates
\* stored without an ICAO code (Airline.findOrCreate stores its caller's data)
CarrierStores ==
  { <<>>,
    <<AirlineDataFor(<<"Z","Z">>)>>,
    <<[AirlineDataFor(<<"E","K">>) EXCEPT !.icaoCode = Null]>> }

\* the caller invokes findOrCreateAirline(c) for a code of the table; after
\* the first call, for a code of the carrier it resolved last
CallCarrier(p, max) ==
  /\ top[p].op = "none"
  /\ calls < max
  /\ \E c \in TableCodes :
       /\ last.op = "airline" => CarrierOf(c) = CarrierOf(last.key)
       /\ al' = [al EXCEPT ![p] = StartAirline(c)]
  /\ top' = BeginTop(p, "airline")
  /\ calls' = calls + 1
  /\ UNCHANGED <<flickr, airlines, airports, aircraft, flights, ap, ac, ph, cf, now, tz, last>>

InitCarriers ==
  /\ now = 0
  /\ tz = 0
  /\ airlines \in CarrierStores
  /\ airports = <<>>
  /\ aircraft = <<>>
  /\ flights = <<>>
  /\ al = [p \in Procs |-> IdleAl]
  /\ ap = [p \in Procs |-> [s \in Sides |-> IdleAp]]
  /\ ac = [p \in Procs |-> IdleAc]
  /\ ph = [s \in PhotoSlots |-> IdlePh]
  /\ cf = [p \in Procs |-> IdleCf]
  /\ calls = 0
  /\ last = [op |-> "none"]
  /\ top = [p \in Procs |-> IdleTop]
  /\ flickr = IdleFlickr

NextCarriers ==
  \/ CallCarrier(Caller, MaxCarrierCalls)
  \/ AirlineFindIata(Caller)
  \/ AirlineFindIcao(Caller)
  \/ AirlineCreate(Caller)
  \/ AirlineRefetch(Caller)
  \/ ReturnAirline(Caller)

SpecCarriers == InitCarriers /\ [][NextCarriers]_vars

(***************************************************************************)
(* fetchAndSaveAircraftPhotos applied to a stored aircraft with and        *)
(* without photos, whose photoLastUpdated is more than seven days, exactly *)
(* seven days and less than seven days in the past.                        *)
(***************************************************************************)
MaxEnrichCalls == 2

EnrichRecords ==
  { [StoredA6Eqa EXCEPT !.photos = f, !.photoLastUpdated = t] :
      f \in {<<>>, <<"f1">>}, t \in {0, 1, 2} }

\* fetchAndSaveAircraftPhotos(aircraft) is called with a stored document.
\* last is bookkeeping: the document the run was given, the time of the call
\* and whether the run returned at once (lines 141-145).
CallEnrich(s, max) ==
  /\ ph[s].pc = "idle"
  /\ calls < max
  /\ \E id \in 1..Len(aircraft) :
       /\ ph' = [ph EXCEPT ![s] = StartPhotos(id, aircraft[id])]
       /\ last' = [op |-> "photos", doc |-> aircraft[id], at |-> now,
                   skipped |-> StartPhotos(id, aircraft[id]) = IdlePh]
  /\ calls' = calls + 1
  /\ UNCHANGED <<flickr, airlines, airports, aircraft, flights, al, ap, ac, cf, now, tz, top>>

InitEnrich ==
  /\ now = Week + 1
  /\ tz = 0
  /\ airlines = <<AirlineDataFor(<<"E","K">>)>>
  /\ airports = <<>>
  /\ aircraft \in {<<r>> : r \in EnrichRecords}
  /\ flights = <<>>
  /\ al = [p \in Procs |-> IdleAl]
  /\ ap = [p \in Procs |-> [s \in Sides |-> IdleAp]]
  /\ ac = [p \in Procs |-> IdleAc]
  /\ ph = [s \in PhotoSlots |-> IdlePh]
  /\ cf = [p \in Procs |-> IdleCf]
  /\ calls = 0
  /\ last = [op |-> "none"]
  /\ top = [p \in Procs |-> IdleTop]
  /\ flickr = IdleFlickr

NextEnrich ==
  \/ \E s \in PhotoSlots :
       \/ CallEnrich(s, MaxEnrichCalls)
       \/ PhotoSearch(s, PhotoOutcomes)
       \/ PhotoSave(s)
  \/ Tick(Week + 1 + MaxTime)

SpecEnrich == InitEnrich /\ [][NextEnrich]_vars

(***************************************************************************)
(* Requests to getAircraftImage, one after the other, over one stored       *)
(* aircraft: with or without photos, checked at any time of the last hour  *)
(* and a half or never.                                                    *)
(***************************************************************************)
MaxImageCalls == 3

ImageRecords ==
  { [StoredA6Eqa EXCEPT !.photos = f, !.photoLastUpdated = t] :
      f \in {<<>>, <<"f1", "f2">>}, t \in 0..(Hour + 1) }

InitImage ==
  /\ now = Hour + 1
  /\ tz = 0
  /\ airlines = <<AirlineDataFor(<<"E","K">>)>>
  /\ airports = <<>>
  /\ aircraft \in {<<r>> : r \in ImageRecords}
  /\ flights = <<>>
  /\ al = [p \in Procs |-> IdleAl]
  /\ ap = [p \in Procs |-> [s \in Sides |-> IdleAp]]
  /\ ac = [p \in Procs |-> IdleAc]
  /\ ph = [s \in PhotoSlots |-> IdlePh]
  /\ cf = [p \in Procs |-> IdleCf]
  /\ calls = 0
  /\ last = [op |-> "none"]
  /\ top = [p \in Procs |-> IdleTop]
  /\ flickr = IdleFlickr

NextImage ==
  \/ CallImage(Caller, ImageRequests, MaxImageCalls)
  \/ ImageFind(Caller)
  \/ ProviderAnswers(Caller)
  \/ ImageRespond(Caller)
  \/ ReturnImage(Caller)
  \/ Tick(Hour + 1 + MaxTime)

SpecImage == InitImage /\ [][NextImage]_vars

(***************************************************************************)
(* Callers of searchAircraftImages, clearCachedResult and clearCache on a  *)
(* service with or without an API key, while time passes.                  *)
(***************************************************************************)
MaxCacheCalls == 2

InitCache ==
  /\ now = 0
  /\ tz = 0
  /\ airlines = <<>>
  /\ airports = <<>>
  /\ aircraft = <<>>
  /\ flights = <<>>
  /\ al = [p \in Procs |-> IdleAl]
  /\ ap = [p \in Procs |-> [s \in Sides |-> IdleAp]]
  /\ ac = [p \in Procs |-> IdleAc]
  /\ ph = [s \in PhotoSlots |-> IdlePh]
  /\ cf = [p \in Procs |-> IdleCf]
  /\ calls = 0
  /\ last = [op |-> "none"]
  /\ top = [p \in Procs |-> IdleTop]
  /\ flickr \in {[IdleFlickr EXCEPT !.apiKey = k] : k \in BOOLEAN}

NextCache ==
  \/ \E p \in Procs :
       \/ CallSearch(p, ImageQueries, MaxCacheCalls)
       \/ ProviderAnswers(p)
       \/ ReturnSearch(p)
  \/ ClearCachedResult(ImageQueries)
  \/ ClearCache
  \/ Tick(MaxTime + CacheExpiry)

SpecCache == InitCache /\ [][NextCache]_vars

(***************************************************************************)
(* Two callers of findOrCreateAirport on an empty store with payloads that *)
(* carry one code: the two ICAO codes the static table maps to the IATA    *)
(* code GOI, an ICAO code outside the table that the provider knows, and   *)
(* the IATA code of the latter.                                            *)
(***************************************************************************)
MaxSharedCalls == 2

SharedPayloads ==
  { ApData(Null, <<"V","O","G","O">>, Null, Null, Null),
    ApData(Null, <<"V","A","G","O">>, Null, Null, Null),
    ApData(Null, <<"E","D","D","M">>, Null, Null, Null),
    ApData(Null, Null, <<"M","U","C">>, Null, Null) }

InitShared == InitCommon /\ tz = 0

NextShared ==
  \E p \in Procs :
    \/ CallAirport(p, SharedPayloads, MaxSharedCalls)
    \/ AirportLookup1(p, "origin")
    \/ AirportFindIata(p, "origin")
    \/ AirportSave(p, "origin")
    \/ AirportFindIcao(p, "origin")
    \/ AirportLookup2(p, "origin")
    \/ AirportCreate(p, "origin")
    \/ AirportRefetch(p, "origin")
    \/ ReturnAirport(p)

SpecShared == InitShared /\ [][NextShared]_vars
(***************************************************************************)
(* Properties.                                                             *)
(***************************************************************************)
SameFlightKey(a, b) ==
  /\ a.userId = b.userId
  /\ a.airline = b.airline
  /\ a.flightNumber = b.flightNumber
  /\ LocalDay(a.date) = LocalDay(b.date)

AirlineRace(p, q) ==
  /\ p # q
  /\ al[p].pc = "done" /\ al[q].pc = "done"
  /\ al[p].code = al[q].code
  /\ al[p].fresh /\ al[q].fresh

\* C2: two concurrent findOrCreateAirline(c) calls, started when no Airline
\* matched c, both return the same Airline record, neither fails, and exactly
\* one Airline for c exists afterwards.  Stated for the codes whose record the
\* Airline schema accepts.
Claim2_AirlineRace ==
  \A p, q \in Procs :
    (AirlineRace(p, q) /\ AirlineValid(AirlineDataFor(al[p].code)))
    => /\ al[p].err = "" /\ al[q].err = ""
       /\ al[p].res = al[q].res
       /\ Cardinality(AirlineByIata(AirlineDataFor(al[p].code).iataCode)) = 1

Answered(p) == cf[p].pc = "responded"

\* the flights, stored before the request of p arrived, of its user, airline,
\* flight number and calendar day
SameFlightBefore(p) ==
  {i \in 1..cf[p].flights0 :
     /\ flights[i].userId = cf[p].user
     /\ flights[i].airline = cf[p].airline
     /\ flights[i].flightNumber = cf[p].flightNumber
     /\ LocalDay(flights[i].date) = LocalDay(cf[p].date)}

Claim5_Resubmit ==
  \A p \in Procs :
    (/\ Answered(p) /\ top[p].solo
     /\ \E i \in 1..cf[p].flights0 :
          flights[i].userId = cf[p].user /\ flights[i].flightAwareData = cf[p].data)
    => /\ cf[p].status = 409
       /\ <<Len(airlines), Len(airports), Len(aircraft)>> = cf[p].rows0

\* two findOrCreateAirport calls in progress for the same payload that both
\* missed the lookup and both had their insert reach the store
AirportRace(p, q) ==
  /\ p # q
  /\ ap[p]["origin"].pc = "done" /\ ap[q]["origin"].pc = "done"
  /\ ap[p]["origin"].data = ap[q]["origin"].data
  /\ ap[p]["origin"].created \/ ap[p]["origin"].conflict # ""
  /\ ap[q]["origin"].created \/ ap[q]["origin"].conflict # ""

AircraftRace(p, q) ==
  /\ p # q
  /\ ac[p].pc = "done" /\ ac[q].pc = "done"
  /\ Truthy(ac[p].data.registration) /\ Truthy(ac[q].data.registration)
  /\ ac[p].tail = ac[q].tail
  /\ ac[p].missed /\ ac[q].missed

\* exactly one record was created and both calls returned it
OneAircraftForBoth(p, q) ==
  /\ ac[p].err = "" /\ ac[q].err = ""
  /\ ac[p].res = ac[q].res
  /\ ac[p].res \in AircraftByTail(ac[p].tail)
  /\ Cardinality(AircraftByTail(ac[p].tail)) = 1
  /\ ac[p].created # ac[q].created

\* C7 as stated, for any registration: when two concurrent findOrCreateAircraft
\* calls for the same case-normalized tail number both miss the lookup and
\* both attempt creation, exactly one Aircraft record is created and both
\* calls return it without failing.
Claim7_AnyRegistration ==
  \A p, q \in Procs : AircraftRace(p, q) => OneAircraftForBoth(p, q)

\* C7, for the registrations the Aircraft schema accepts (letters, digits and
\* hyphens once normalized): when two concurrent findOrCreateAircraft calls for
\* the same normalized tail number both miss the lookup and both have their
\* insert reach the store, exactly one Aircraft record is created and both
\* calls return it without failing.
Claim7_AircraftRace ==
  \A p, q \in Procs :
    (AircraftRace(p, q) /\ ac[p].tried /\ ac[q].tried) => OneAircraftForBoth(p, q)

\* two calls raced on one tail number, spelled differently, and share a record
Witness7_Raced ==
  \E p, q \in Procs :
    /\ AircraftRace(p, q) /\ ac[p].tried /\ ac[q].tried
    /\ ac[p].data.registration # ac[q].data.registration
    /\ ac[p].created /\ ~ac[q].created
    /\ ac[p].res = ac[q].res

Kept(v, w) == Truthy(v) => w = v

\* C9: findOrCreateAirport and findOrCreateAircraft never change or clear a
\* field of an existing record that holds a non-null value: airport icaoCode,
\* name, city; aircraft aircraftType, airline, manufacturer, model.
Claim9_BackfillKeeps ==
  [][/\ \A i \in 1..Len(airports) :
          /\ Kept(airports[i].icaoCode, airports'[i].icaoCode)
          /\ Kept(airports[i].name, airports'[i].name)
          /\ Kept(airports[i].city, airports'[i].city)
     /\ \A i \in 1..Len(aircraft) :
          /\ Kept(aircraft[i].aircraftType, aircraft'[i].aircraftType)
          /\ (aircraft[i].airline # NoId => aircraft'[i].airline = aircraft[i].airline)
          /\ Kept(aircraft[i].manufacturer, aircraft'[i].manufacturer)
          /\ Kept(aircraft[i].model, aircraft'[i].model)]_vars

\* C10: findOrCreateAircraft returns a valid Aircraft record whenever the image
\* search throws or returns nothing: the enrichment's promise never rejects,
\* the resolver call that started it answers with a stored, valid record and
\* no error, and the createFlight request it belongs to is answered 201 or 409.
Claim10_PhotoBestEffort ==
  /\ \A s \in PhotoSlots : ph[s].pc # "idle" => ph[s].err = ""
  /\ \A p \in Procs :
       (ac[p].pc = "done" /\ ac[p].slot # "none")
       => /\ ac[p].err = ""
          /\ ac[p].res \in 1..Len(aircraft)
          /\ AircraftValid(aircraft[ac[p].res])
          /\ (Answered(p) => cf[p].status \in {201, 409})

\* a request was answered 201 while the enrichment its aircraft resolver
\* started had failed
Witness10_FailedEnrichment ==
  \E p \in Procs :
    /\ Answered(p) /\ cf[p].status = 201
    /\ ac[p].pc = "done" /\ ac[p].slot # "none"
    /\ ph[ac[p].slot].pc = "save"
    /\ ph[ac[p].slot].failed
    /\ ph[ac[p].slot].id = ac[p].res

Claim12_PhotosDistinct ==
  \A i \in 1..Len(aircraft) :
    \A a, b \in 1..Len(aircraft[i].photos) :
      a # b => aircraft[i].photos[a] # aircraft[i].photos[b]

\* C13: for every code c of two letters that is a key of the static airline
\* table and every flight number n, parseFlightIdent returns airlineCode c and
\* flightNumber n for the glued form "cn" and for the spaced form "c n", and
\* airlineCode c for "<full airline name> n".
Claim13_ParserRoundTrip ==
  (last.op = "parse" /\ AllIn(last.code, UpperLetters))
  => /\ last.out.ok
     /\ last.out.airlineCode = last.code
     /\ last.form \in {"glued", "spaced"} => last.out.flightNumber = last.number

\* the request of p is answered by this step
Answers(p) == cf[p].pc # "responded" /\ cf'[p].pc = "responded"

Claim15_ParseError400 ==
  \A p \in Procs :
    (Answered(p) /\ cf[p].err = "Invalid flight identifier format")
    => /\ cf[p].status = 400
       /\ cf[p].rows0 = <<Len(airlines), Len(airports), Len(aircraft)>>
       /\ cf[p].flights0 = Len(flights)

\* an airport object that carries none of the five code fields
NoCodeField(d) ==
  /\ d.present
  /\ ~Truthy(d.code) /\ ~Truthy(d.codeIcao) /\ ~Truthy(d.codeIata)
  /\ ~Truthy(d.code_icao) /\ ~Truthy(d.code_iata)

\* a payload that lacks required aircraft or airport data
LacksData(d) ==
  \/ ~d.aircraft.present
  \/ ~Truthy(d.aircraft.registration) /\ ~Truthy(d.aircraft.type)
  \/ ~d.origin.present \/ ~d.destination.present
  \/ NoCodeField(d.origin) \/ NoCodeField(d.destination)

\* C16: a request whose ident parses and whose payload lacks required aircraft
\* or airport data is answered with status 400
Claim16_MissingData400 ==
  \A p \in Procs :
    (Answered(p) /\ cf[p].err # "Invalid flight identifier format" /\ LacksData(cf[p].data))
    => cf[p].status = 400

Distinct(rows, Key(_)) ==
  \A i, j \in 1..Len(rows) : (i # j /\ Truthy(Key(rows[i]))) => Key(rows[i]) # Key(rows[j])

IataOf(r) == r.iataCode

IcaoOf(r) == r.icaoCode

TailOf(r) == r.tailNumber

\* C17: no two airlines share an iataCode or a non-null icaoCode, no two
\* airports share an iataCode or a non-null icaoCode, and no two aircraft
\* share a tailNumber
Claim17_UniqueKeys ==
  /\ Distinct(airlines, IataOf) /\ Distinct(airlines, IcaoOf)
  /\ Distinct(airports, IataOf) /\ Distinct(airports, IcaoOf)
  /\ Distinct(aircraft, TailOf)

\* the insert of an airport by one of two overlapping calls was rejected by
\* the iataCode index, and the call returned the one record stored under the code
Witness17_InsertRejected ==
  \E p \in Procs, s \in Sides :
    /\ ap[p][s].pc = "done"
    /\ ap[p][s].conflict = "iataCode"
    /\ AirportByIata(ap[p][s].iata) = {ap[p][s].res}

\* C18: a findOrCreateAirline call for a code of three characters that matched
\* no stored airline and matches no key or ICAO value of the static table
\* returns an airline with that code as iataCode, no ICAO code and the name
\* "Airline <code>"
Claim18_ThreeLetterCode ==
  \A p \in Procs :
    (/\ al[p].pc = "done" /\ al[p].fresh
     /\ Len(al[p].code) = 3
     /\ MapByIata(al[p].code) = {} /\ MapByIcao(al[p].code) = {})
    => /\ al[p].err = ""
       /\ al[p].res \in 1..Len(airlines)
       /\ airlines[al[p].res] =
            [name |-> AirlineWord \o al[p].code, iataCode |-> al[p].code, icaoCode |-> Null]

\* C19: every stored airline has an iataCode of exactly two uppercase letters
\* and an icaoCode that is absent or exactly three uppercase letters
Claim19_AirlineCodes ==
  \A i \in 1..Len(airlines) :
    /\ Len(airlines[i].iataCode) = 2 /\ AllIn(airlines[i].iataCode, UpperLetters)
    /\ \/ airlines[i].icaoCode = Null
       \/ Len(airlines[i].icaoCode) = 3 /\ AllIn(airlines[i].icaoCode, UpperLetters)

\* one call stored a generic airline for an unmapped code of two letters and
\* another call's record was rejected by the schema
Witness19_Rejected ==
  \E p, q \in Procs :
    /\ al[p].pc = "done" /\ al[p].err = "ValidationError"
    /\ al[q].pc = "done" /\ al[q].created
    /\ airlines[al[q].res].icaoCode = Null

\* the request of p arrived at an empty store and has been answered
FirstAnswered(p) ==
  Answered(p) /\ cf[p].rows0 = <<0, 0, 0>> /\ cf[p].flights0 = 0

IcaoOnly(d) ==
  /\ d.present
  /\ Truthy(OrElse(d.codeIcao, d.code_icao))
  /\ ~Truthy(d.code) /\ ~Truthy(d.codeIata) /\ ~Truthy(d.code_iata)

Claim22_LookupFails ==
  \A p \in Procs :
    (top[p].op = "lookup" /\ Answered(p) /\ cf[p].asked.kind \notin {"none", "data"})
    => cf[p].status >= 400 /\ cf[p].err # "" /\ cf[p].found = 0

\* a request whose provider call timed out was answered with status 500
Witness22_Timeout ==
  \E p \in Procs :
    /\ top[p].op = "lookup" /\ Answered(p)
    /\ cf[p].asked.kind = "timeout" /\ cf[p].status = 500

\* C23: a findOrCreateAircraft call that found an existing aircraft by
\* registration whose photo data is stale has started a photo enrichment for it
Claim23_StaleRefresh ==
  \A p \in Procs :
    (/\ ac[p].pc = "done" /\ ac[p].err = ""
     /\ Truthy(ac[p].data.registration)
     /\ ~ac[p].missed
     /\ NeedsPhotoUpdate(aircraft[ac[p].res]))
    => /\ ac[p].slot # "none"
       /\ ph[ac[p].slot].pc # "idle"

\* the name of the airline an aircraft document is linked to
LinkedAirlineName(doc) ==
  IF doc.airline \in 1..Len(airlines) THEN airlines[doc.airline].name ELSE Null

\* C24: a photo-enrichment run issues at most two image searches; the first
\* with the tail number, the type display name and the name of the aircraft's
\* airline; a second, with the tail number alone, exactly when the first
\* returned no photo
Claim24_TwoSearches ==
  \A s \in PhotoSlots :
    ph[s].pc # "idle"
    => LET t == ph[s]
       IN /\ Len(t.queries) <= 2
          /\ Len(t.queries) >= 1
             => t.queries[1] = [tail |-> t.doc.tailNumber,
                                type |-> TypeDisplayName(t.doc.aircraftType),
                                airline |-> LinkedAirlineName(t.doc)]
          /\ Len(t.queries) = 2
             => /\ t.queries[2] = [tail |-> t.doc.tailNumber, type |-> Null, airline |-> Null]
                /\ t.results[1] = <<"ok", 0>>
          /\ (t.pc = "save" /\ t.results[1] = <<"ok", 0>>) => Len(t.queries) = 2

\* the payload names an airport by an ICAO code alone: an explicit ICAO code
\* or a generic code of four characters, and no IATA code
IcaoAlone(d) ==
  /\ d.present
  /\ ~Truthy(OrElse(d.codeIata, d.code_iata))
  /\ \/ Truthy(OrElse(d.codeIcao, d.code_icao))
     \/ Truthy(d.code) /\ Len(Trim(d.code)) = 4

\* C25: when only an ICAO code is known, findOrCreateAirport takes the IATA
\* code from the static table only after the airport-info lookup gave no IATA
\* code, and uses the synthetic code only when lookup and table gave nothing
Claim25_DerivationOrder ==
  \A p \in Procs : \A s \in Sides :
    (ap[p][s].pc # "idle" /\ IcaoAlone(ap[p][s].data))
    => /\ ap[p][s].via = "table" => ap[p][s].looked = "empty"
       /\ ap[p][s].via = "synthetic"
          => /\ ap[p][s].looked = "empty"
             /\ ~Truthy(IcaoToIataAirport(ap[p][s].icao))

\* the stored airlines that carry the IATA code or the ICAO code of table entry e
RowsOfCarrier(e) ==
  {k \in 1..Len(airlines) :
     \/ airlines[k].iataCode = AirlineCodeMap[e].iata
     \/ airlines[k].icaoCode = AirlineCodeMap[e].icaoCode}

\* C26: for every airline of the static table, findOrCreateAirline by its
\* IATA code and by its ICAO code, one after the other in either order,
\* return the same Airline record and leave exactly one Airline of the carrier
Claim26_SameCarrier ==
  \A p \in Procs :
    (/\ al[p].pc = "done"
     /\ top[p].solo
     /\ top[p].prev.op = "airline"
     /\ top[p].prev.solo
     /\ top[p].prev.key # al[p].code
     /\ CarrierOf(al[p].code) # {}
     /\ CarrierOf(top[p].prev.key) = CarrierOf(al[p].code))
    => /\ al[p].err = ""
       /\ top[p].prev.err = ""
       /\ al[p].res # NoId
       /\ al[p].res = top[p].prev.res
       /\ \A e \in CarrierOf(al[p].code) : Cardinality(RowsOfCarrier(e)) = 1

\* C27: for every entry of the static table, findOrCreateAirline by its key
\* on a store without that airline succeeds and returns an Airline with that
\* IATA code, the name and the ICAO code of the entry
Claim27_TableEntry ==
  \A p \in Procs :
    (al[p].pc = "done" /\ al[p].fresh /\ MapByIata(al[p].code) # {})
    => /\ al[p].err = ""
       /\ al[p].res \in 1..Len(airlines)
       /\ \A e \in MapByIata(al[p].code) :
            /\ airlines[al[p].res].iataCode = AirlineCodeMap[e].iata
            /\ airlines[al[p].res].name = AirlineCodeMap[e].name
            /\ airlines[al[p].res].icaoCode = AirlineCodeMap[e].icaoCode

\* C28: a findOrCreateAircraft call with a type and no registration creates
\* a new Aircraft record under its tail number UNKNOWN-<type>-<timestamp>;
\* it never returns a record an earlier call created, also when two such
\* calls for one type read the same timestamp
Claim28_FreshRecord ==
  \A p \in Procs :
    (/\ ac[p].pc = "done"
     /\ ac[p].data.present
     /\ ~Truthy(ac[p].data.registration)
     /\ Truthy(ac[p].data.type))
    => /\ ac[p].err = ""
       /\ ac[p].created
       /\ ac[p].res \in (ac[p].rows0 + 1)..Len(aircraft)
       /\ aircraft[ac[p].res].tailNumber = ac[p].tail

\* C29: when an aircraft was first stored by registration from a payload
\* without a type, a later findOrCreateAircraft for that registration with
\* type T leaves the stored record with aircraftType T and with the
\* manufacturer and model derived from T
Claim29_TypeBackfilled ==
  \A p \in Procs :
    (/\ ac[p].pc = "done"
     /\ top[p].solo
     /\ ac[p].rows0 = 1
     /\ ac[p].read = UntypedA6Eqa
     /\ Truthy(ac[p].data.type))
    => /\ ac[p].err = ""
       /\ ac[p].res = 1
       /\ aircraft[1].aircraftType = ac[p].data.type
       /\ aircraft[1].manufacturer = ExtractManufacturer(ac[p].data.type)
       /\ aircraft[1].model = ExtractModel(ac[p].data.type)

\* the user's stored flights of the airline and flight number of request p
\* whose date falls on the UTC calendar day of the request's date
SameUtcDayFlights(p) ==
  {i \in 1..Len(flights) :
     /\ flights[i].userId = cf[p].user
     /\ flights[i].airline = cf[p].airline
     /\ flights[i].flightNumber = cf[p].flightNumber
     /\ UtcDay(flights[i].date) = UtcDay(cf[p].date)}

\* C30: the duplicate check of createFlight finds an existing Flight exactly
\* when its date and the new flight's date fall on the same UTC calendar
\* day, whatever the server's local time zone
Claim30_UtcDay ==
  [][\A p \in Procs :
       FlightDupCheck(p) => (cf'[p].pc = "responded" <=> SameUtcDayFlights(p) # {})]_vars

StepsOrdered(p) ==
  /\ ac[p].pc # "idle" => (al[p].pc = "done" /\ al[p].err = "")
  /\ \A s \in Sides :
       ap[p][s].pc # "idle" => (ac[p].pc = "done" /\ ac[p].err = "")
  /\ cf[p].pc \in {"dupcheck", "create", "populate"}
     => \A s \in Sides : ap[p][s].pc = "done" /\ ap[p][s].err = ""

\* C32: within one createFlight call the airline is resolved before the
\* aircraft resolution starts, the aircraft before the two airport
\* resolutions start, the duplicate check starts after both airports are
\* resolved, and a Flight is persisted only by a call whose duplicate check
\* found no match (the position "create" is entered from the duplicate check
\* alone, and only when it found nothing)
Claim32_StepOrder ==
  /\ [](\A p \in Procs : top[p].op = "flight" => StepsOrdered(p))
  /\ [][flights' # flights
        => \E p \in Procs :
             /\ cf[p].pc = "create"
             /\ flights' = Append(flights, NewFlightData(cf[p]))]_vars

\* the destination airport is resolved while the origin airport is not yet
Witness32_DestinationFirst ==
  \E p \in Procs :
    /\ cf[p].pc = "airports"
    /\ ap[p]["destination"].pc = "done"
    /\ ap[p]["origin"].pc \notin {"idle", "done"}

\* C33 as stated: a photo-enrichment run performs no image search exactly
\* when the aircraft has a stored photo and its photoLastUpdated is less
\* than seven days old; in every other case it searches
Claim33_SkipUnderWeek ==
  [][\A s \in PhotoSlots :
       CallEnrich(s, MaxEnrichCalls)
       => /\ last'.skipped
             <=> (Len(last'.doc.photos) > 0 /\ now - last'.doc.photoLastUpdated < Week)
          /\ ~last'.skipped => ph'[s].pc = "search"]_vars

\* C33, amended: a photo-enrichment run performs no image search exactly
\* when the aircraft has a stored photo and its photoLastUpdated is not more
\* than seven days old (seven days exactly included); in every other case it
\* searches
Claim33_SkipWithinWeek ==
  [][\A s \in PhotoSlots :
       CallEnrich(s, MaxEnrichCalls)
       => /\ last'.skipped
             <=> (Len(last'.doc.photos) > 0 /\ now - last'.doc.photoLastUpdated <= Week)
          /\ ~last'.skipped => ph'[s].pc = "search"]_vars

\* a run for an aircraft with a photo stamped exactly seven days ago returned
\* without a search
Witness33_SkippedAtWeek ==
  /\ last.op = "photos"
  /\ last.skipped
  /\ Len(last.doc.photos) > 0
  /\ last.at - last.doc.photoLastUpdated = Week

\* the aircraft document a request to getAircraftImage found by registration
FoundForImage(p) ==
  LET hit == AircraftByTail(ToUpperCase(cf[p].query.registration))
  IN IF hit = {} THEN NoAircraftDoc ELSE aircraft[Min(hit)]

\* C34: getAircraftImage does not contact the image-search provider for a
\* stored aircraft with at least one photo (the first stored photo is the
\* answer), nor for a stored aircraft without photos whose photoLastUpdated
\* is less than one hour old (the answer is "no image"): the step that reads
\* the aircraft answers at once and leaves the service alone, and a request
\* that reaches the provider found no aircraft or one without photos.
Claim34_NoProviderCall ==
  /\ [][\A p \in Procs :
          LET doc == FoundForImage(p)
          IN (ImageFind(p) /\ doc # NoAircraftDoc) =>
               /\ Len(doc.photos) > 0 =>
                    /\ cf'[p].pc = "responded" /\ cf'[p].status = 200
                    /\ cf'[p].image = <<doc.photos[1]>>
                    /\ ~cf'[p].contacted /\ flickr' = flickr
               /\ (Len(doc.photos) = 0 /\ doc.photoLastUpdated # NoTime
                     /\ now - doc.photoLastUpdated < Hour) =>
                    /\ cf'[p].pc = "responded" /\ cf'[p].status = 200
                    /\ cf'[p].image = Null
                    /\ ~cf'[p].contacted /\ flickr' = flickr]_vars
  /\ [](\A p \in Procs :
          (top[p].op = "image" /\ (cf[p].pc = "provider" \/ cf[p].contacted))
            => Len(cf[p].doc.photos) = 0)

\* a request for a stored aircraft without photos that was checked half an
\* hour ago has been answered "no image" without a call to the provider
Witness34_CheckedWithinHour ==
  \E p \in Procs :
    /\ top[p].op = "image" /\ cf[p].pc = "responded" /\ cf[p].source = "recent"
    /\ cf[p].doc # NoAircraftDoc /\ cf[p].doc.photos = <<>>
    /\ cf[p].doc.photoLastUpdated = now - 1
    /\ cf[p].image = Null /\ ~cf[p].contacted

\* the entries of the cache under the key of a query that are younger than
\* 30 minutes
LiveEntries(q) ==
  {e \in flickr.cache : /\ e.key = GetCacheKey(q.registration, q.aircraftType, q.airline)
                         /\ now - e.timestamp < CacheExpiry}

\* C38: with an API key configured, a call of searchAircraftImages is answered
\* from the cache, without a call to the provider, exactly when the cache
\* holds an entry under the key of its (registration, type, airline) that is
\* younger than 30 minutes, and the answer is that entry's data; in every
\* other case the provider is called.  clearCache leaves no entry, entries
\* disappear only through clearCache or through clearCachedResult, which
\* removes the entry of the key it is given, and entries appear only when a
\* provider call settles, stamped with the time of that moment.
Claim38_CacheAnswer ==
  /\ [][\A p \in Procs :
          (top[p].op = "none" /\ top'[p].op = "search" /\ flickr.apiKey) =>
             LET live == LiveEntries(cf'[p].query)
             IN /\ (cf'[p].pc = "searched" /\ ~cf'[p].contacted) <=> live # {}
                /\ live # {} => \E e \in live : cf'[p].images = e.data
                /\ live = {} => cf'[p].pc = "provider"]_vars
  /\ [][ClearCache => flickr'.cache = {}]_vars
  /\ [][(flickr'.cache # flickr.cache /\ flickr'.cache \subseteq flickr.cache) =>
          \/ flickr'.cache = {}
          \/ \E q \in ImageQueries :
               \A e \in flickr.cache :
                 e \in flickr'.cache
                   <=> e.key # GetCacheKey(q.registration, q.aircraftType, q.airline)]_vars
  /\ [][~(flickr'.cache \subseteq flickr.cache) =>
          \E p \in Procs : /\ cf[p].pc = "provider" /\ cf'[p].pc = "searched"
                            /\ \A e \in flickr'.cache \ flickr.cache :
                                 e.key = cf[p].key /\ e.timestamp = now]_vars
  /\ [](\A e1, e2 \in flickr.cache : e1.key = e2.key => e1 = e2)

\* a search for "a6-eqa" has been answered from the entry that the search
\* for "A6-EQA" left in the cache, without a call to the provider
Witness38_AnsweredFromCache ==
  \E p \in Procs :
    /\ top[p].op = "search" /\ cf[p].pc = "searched" /\ cf[p].source = "cache"
    /\ ~cf[p].contacted /\ flickr.apiKey
    /\ cf[p].query.registration = <<"a","6","-","e","q","a">>
    /\ cf[p].images = <<"g1", "g2">>
    /\ last.op = "search" /\ last.res = <<"g1", "g2">>

\* C35: when findOrCreateAirport has settled with an Airport for a payload
\* from which it resolved an ICAO code, the icaoCode of that Airport is the
\* resolved code or unset, never another ICAO code
Claim35_SameIcao ==
  \A p \in Procs :
    LET t == ap[p]["origin"]
    IN (t.pc = "done" /\ t.res # NoId /\ Truthy(t.icao))
         => airports[t.res].icaoCode \in {Null, t.icao}

\* C36: when findOrCreateAirline(c) has settled with an Airline, that Airline
\* has iataCode c, or icaoCode c, or is the carrier the static table lists
\* under the ICAO code c; also when the record was re-fetched after a lost
\* uniqueness race
Claim36_ReturnedForCode ==
  \A p \in Procs :
    (al[p].pc = "done" /\ al[p].res # NoId)
      => \/ airlines[al[p].res].iataCode = al[p].code
         \/ airlines[al[p].res].icaoCode = al[p].code
         \/ \E e \in MapByIcao(al[p].code) :
              airlines[al[p].res].iataCode = AirlineCodeMap[e].iata

====
